---- MODULE Spec2Model ----
(***************************************************************************)
(* Model of the iperf3 agent service (core/agent_service.py): the server   *)
(* and client registries behind AgentService.LOCK, the HTTP handler        *)
(* threads, the per-client reader threads and the subprocesses they watch. *)
(***************************************************************************)
EXTENDS Integers, Sequences, FiniteSets, TLC

(***************************************************************************)
(* Program constants.                                                      *)
(***************************************************************************)
MAX_SERVERS == 50
MAX_CLIENTS == 50
MAX_BODY == 64 * 1024

(***************************************************************************)
(* Bounds of the model.                                                    *)
(***************************************************************************)
\* handler threads of the ThreadingHTTPServer that are busy at the same time
NumThreads == 2
\* number of times the wall clock read by time.time() advances
MaxTime == 1
\* subprocesses started on top of the ones of the initial state
MaxSpawn == 2
\* dict objects created by reader threads for last_json
MaxObjs == 2
\* server subprocesses on ports 1..MaxExitPort may exit on their own
MaxExitPort == 2
\* the seconds that pass in the controller while requests are on their way
MaxClock == 1

(***************************************************************************)
(* Python values.  A string is a sequence of one-character strings, so     *)
(* that strip(), lower(), isdigit(), int() and split() are computed.       *)
(***************************************************************************)
PyNone == [ty |-> "none", s |-> <<>>, n |-> 0, b |-> FALSE, l |-> <<>>]
PyStr(x) == [ty |-> "str", s |-> x, n |-> 0, b |-> FALSE, l |-> <<>>]
PyInt(x) == [ty |-> "int", s |-> <<>>, n |-> x, b |-> FALSE, l |-> <<>>]
PyBool(x) == [ty |-> "bool", s |-> <<>>, n |-> 0, b |-> x, l |-> <<>>]
PyList(x) == [ty |-> "list", s |-> <<>>, n |-> 0, b |-> FALSE, l |-> x]

\* bool(v)
Truthy(v) ==
  CASE v.ty = "none" -> FALSE
    [] v.ty = "bool" -> v.b
    [] v.ty = "int" -> v.n # 0
    [] v.ty = "str" -> v.s # <<>>
    [] v.ty = "list" -> v.l # <<>>

UpperChars == <<"A","B","C","D","E","F","G","H","I","J","K","L","M",
                "N","O","P","Q","R","S","T","U","V","W","X","Y","Z">>
LowerChars == <<"a","b","c","d","e","f","g","h","i","j","k","l","m",
                "n","o","p","q","r","s","t","u","v","w","x","y","z">>
DigitChars == <<"0","1","2","3","4","5","6","7","8","9">>
SpaceChars == {" ", "\t", "\n", "\r"}

Range(f) == {f[i] : i \in DOMAIN f}
IndexOf(f, c) == CHOOSE i \in DOMAIN f : f[i] = c
MinOf(S) == CHOOSE x \in S : \A y \in S : x <= y

\* str.lower()
LowerChar(c) == IF c \in Range(UpperChars) THEN LowerChars[IndexOf(UpperChars, c)] ELSE c
StrLower(s) == [i \in 1..Len(s) |-> LowerChar(s[i])]

\* str.strip()
RECURSIVE LStrip(_)
LStrip(s) == IF s # <<>> /\ Head(s) \in SpaceChars THEN LStrip(Tail(s)) ELSE s
RECURSIVE RStrip(_)
RStrip(s) == IF s # <<>> /\ s[Len(s)] \in SpaceChars THEN RStrip(SubSeq(s, 1, Len(s) - 1)) ELSE s
StrStrip(s) == RStrip(LStrip(s))

\* str.isdigit()
IsDigit(s) == s # <<>> /\ \A i \in 1..Len(s) : s[i] \in Range(DigitChars)

RECURSIVE DigitsVal(_)
DigitsVal(s) == IF s = <<>> THEN 0 ELSE 10 * DigitsVal(SubSeq(s, 1, Len(s) - 1)) + (IndexOf(DigitChars, s[Len(s)]) - 1)

\* int(str): surrounding whitespace and one sign are accepted
Unsigned(st) == IF st # <<>> /\ Head(st) \in {"+", "-"} THEN Tail(st) ELSE st
Signed(st) == IF Head(st) = "-" THEN 0 - DigitsVal(Tail(st)) ELSE DigitsVal(Unsigned(st))
IntStrOk(s) == IsDigit(Unsigned(StrStrip(s)))
IntStrVal(s) == Signed(StrStrip(s))

\* int(v): "ok", "ValueError" or "TypeError", and the value when ok
IntKind(v) ==
  CASE v.ty = "int" -> "ok"
    [] v.ty = "bool" -> "ok"
    [] v.ty = "str" -> IF IntStrOk(v.s) THEN "ok" ELSE "ValueError"
    [] OTHER -> "TypeError"
IntVal(v) ==
  CASE v.ty = "int" -> v.n
    [] v.ty = "bool" -> IF v.b THEN 1 ELSE 0
    [] v.ty = "str" -> IntStrVal(v.s)
    [] OTHER -> 0

RECURSIVE NatStr(_)
NatStr(n) == IF n < 10 THEN <<DigitChars[n + 1]>> ELSE NatStr(n \div 10) \o <<DigitChars[(n % 10) + 1]>>

\* str(v) of a scalar
ScalarStr(v) ==
  CASE v.ty = "str" -> v.s
    [] v.ty = "int" -> IF v.n < 0 THEN <<"-">> \o NatStr(0 - v.n) ELSE NatStr(v.n)
    [] v.ty = "bool" -> IF v.b THEN <<"T","r","u","e">> ELSE <<"F","a","l","s","e">>
    [] OTHER -> <<"N","o","n","e">>

\* the elements of repr(list) for a list of scalars
RECURSIVE ListRepr(_)
ListRepr(l) ==
  IF l = <<>> THEN <<>>
  ELSE (IF Head(l).ty = "str" THEN <<"'">> \o Head(l).s \o <<"'">> ELSE ScalarStr(Head(l)))
       \o (IF Tail(l) = <<>> THEN <<>> ELSE <<",", " ">> \o ListRepr(Tail(l)))

\* str(v)
StrOf(v) == IF v.ty = "list" THEN <<"[">> \o ListRepr(v.l) \o <<"]">> ELSE ScalarStr(v)

\* [x for x in s.split(' ') if x]
RECURSIVE SplitWords(_, _)
SplitWords(s, cur) ==
  IF s = <<>> THEN (IF cur = <<>> THEN <<>> ELSE <<cur>>)
  ELSE IF Head(s) = " " THEN (IF cur = <<>> THEN <<>> ELSE <<cur>>) \o SplitWords(Tail(s), <<>>)
  ELSE SplitWords(Tail(s), Append(cur, Head(s)))

(***************************************************************************)
(* Python dicts: functions from a set of keys.                             *)
(***************************************************************************)
EmptyDict == <<>>
Has(d, k) == k \in DOMAIN d
Put(d, k, v) == [x \in (DOMAIN d) \cup {k} |-> IF x = k THEN v ELSE d[x]]
Pop(d, k) == [x \in (DOMAIN d) \ {k} |-> d[x]]
Get(d, k, dflt) == IF Has(d, k) THEN d[k] ELSE dflt

(***************************************************************************)
(* AgentService._normalize_task                                            *)
(***************************************************************************)
TrueWords == {<<"1">>, <<"t","r","u","e">>, <<"y","e","s">>, <<"o","n">>, <<"y">>}

\* "if canon not in t: for k in aliases: if k in t: t[canon] = t[k]; break"
Alias(t, canon, aliases) ==
  LET present == {i \in 1..Len(aliases) : Has(t, aliases[i])}
  IN IF Has(t, canon) \/ present = {} THEN t
     ELSE Put(t, canon, t[aliases[MinOf(present)]])

BoolCoerce(t, k) ==
  IF Has(t, k) /\ t[k].ty = "str" THEN Put(t, k, PyBool(StrLower(t[k].s) \in TrueWords)) ELSE t

NormLocalPort(t) ==
  IF Has(t, "local_port") /\ t["local_port"].ty = "str" /\ IsDigit(t["local_port"].s)
  THEN Put(t, "local_port", PyInt(DigitsVal(t["local_port"].s))) ELSE t

NormTos(t) ==
  IF Has(t, "tos") /\ t["tos"].ty = "str" THEN Put(t, "tos", PyStr(StrStrip(t["tos"].s))) ELSE t

SetIfText(t, k, st) == IF st # <<>> THEN Put(t, k, PyStr(st)) ELSE t
NormInterval(t) ==
  IF Has(t, "interval") THEN SetIfText(t, "interval", StrStrip(StrOf(t["interval"]))) ELSE t

WordList(ws) == PyList([i \in 1..Len(ws) |-> PyStr(ws[i])])
NormExtraArgs(t) ==
  IF Has(t, "extra_args") /\ t["extra_args"].ty # "list"
  THEN Put(t, "extra_args", WordList(SplitWords(StrOf(t["extra_args"]), <<>>))) ELSE t

_normalize_task(data) ==
  LET t1 == Alias(data, "proto", <<"protocol">>)
      t2 == Alias(t1, "duration", <<"time", "seconds">>)
      t3 == Alias(t2, "parallel", <<"P", "pairs", "threads">>)
      t4 == Alias(t3, "bitrate", <<"bandwidth", "bw">>)
      t5 == Alias(t4, "length", <<"len", "bytes">>)
      t6 == Alias(t5, "bind", <<"bind_ip">>)
      t7 == BoolCoerce(BoolCoerce(t6, "reverse"), "bidir")
  IN NormExtraArgs(NormInterval(NormTos(NormLocalPort(t7))))

(***************************************************************************)
(* State.                                                                  *)
(***************************************************************************)
VARIABLES
  api_token,        \* AgentService.api_token, stripped by __init__
  autostart_ports,  \* AgentService.autostart_ports
  httpd,            \* TRUE while self.httpd is set (the HTTP server thread runs)
  mainPc,           \* position of the thread that calls start()
  SERVER_PROCS,     \* port -> process
  CLIENT_PROCS,     \* key -> [proc, task, last_json, exit_code]
  bulk,             \* further entries of CLIENT_PROCS, counted: clients of long
                    \* tests that produce no output and run until they are stopped
  procs,            \* the subprocesses: process -> [alive, stopped]
  heap,             \* the dict objects that last_json refers to
  reader,           \* the running reader threads: process -> [key]
  now,              \* the value time.time() returns
  pc, req, loc,     \* handler threads: position, request, local variables
  view,             \* the values a GET handler saw while it held LOCK
  last,             \* the response sent by the last step: [t, req, code, error, payload, seen]
  cfg,              \* the configuration dict a test run was started with
  stop_event,       \* TRUE while the threading.Event of the run is set
  clock,            \* the value time.time() returns in the controller
  trace,            \* the calls made so far: requests sent, lines logged, Popen methods
  run,              \* the threads of a test run: position and local variables
  fcall,            \* a function called on its own: [fn, args, ret]
  LOCK,             \* the thread that holds AgentService.LOCK, 0 when it is free
  _pool,            \* net_utils._pool and the HTTPConnection objects it has made
  main,             \* the main thread inside start(): [rest, proc, sig]
  stop_flag,        \* AgentService.stop_flag
  disc              \* the discovery responder threads: thread -> position

vars == <<api_token, autostart_ports, httpd, mainPc, SERVER_PROCS, CLIENT_PROCS, bulk,
          procs, heap, reader, now, pc, req, loc, view, last,
          cfg, stop_event, clock, trace, run, fcall, LOCK, _pool, main, stop_flag, disc>>

Threads == 1..NumThreads

\* Optional values: None is the empty set, a value x is {x}
None == {}
Some(x) == {x}
The(o) == CHOOSE x \in o : TRUE

NoPid == <<>>
NoLocals ==
  [task |-> EmptyDict, proc |-> NoPid, key |-> <<>>, kind |-> "", servers |-> {}, snap |-> EmptyDict,
   acc |-> EmptyDict]

\* the response of thread t to request r; seen: what the handler read under LOCK
Sent(t, r, code, err, payload, seen) ==
  [t |-> t, req |-> r, code |-> code, error |-> err, payload |-> payload, seen |-> seen]

cfgVars == <<api_token, autostart_ports>>

\* the state of the controller, which the steps of the agent leave alone
runVars == <<cfg, stop_event, clock, trace, run>>
\* no test run was started
NoRun == cfg = <<>> /\ stop_event = FALSE /\ clock = 0 /\ trace = <<>> /\ run = <<>>

\* the state of the parts that are followed on their own: a function called
\* with given arguments, the holder of LOCK where the sections under LOCK are
\* taken step by step, the connection pool of the controller
\* the service threads that are followed only where a claim is about them
svcVars == <<main, stop_flag, disc>>
NoMain == [rest |-> <<>>, proc |-> NoPid, sig |-> ""]
NoSvc == main = NoMain /\ stop_flag = FALSE /\ disc = <<>>
otherVars == <<fcall, LOCK, _pool, svcVars>>
NoOther == fcall = <<>> /\ LOCK = 0 /\ _pool = <<>> /\ NoSvc

\* a request: method, path, X-API-Key and Content-Length headers (None when
\* absent), and the JSON object of the body
Request(m, p, k, c, b) == [method |-> m, path |-> p, key |-> k, clen |-> c, body |-> b]
NoReq == Request("", "", {}, {}, EmptyDict)
\* no response was sent by the step that led here
NoSent == Sent(0, NoReq, 0, "", EmptyDict, EmptyDict)

\* a new Popen object: processes are named by kind, port and a serial number
NewPid(P, kind, port) ==
  <<kind, port, MinOf({n \in 1..(Cardinality(DOMAIN P) + 1) : <<kind, port, n>> \notin DOMAIN P})>>
NewProc == [alive |-> TRUE, stopped |-> FALSE]

\* proc.poll() is None
Alive(P, pid) == P[pid].alive

\* AgentService._stop_proc: terminate(), wait(2), kill() on timeout
_stop_proc(P, pid) == [P EXCEPT ![pid] = [alive |-> FALSE, stopped |-> TRUE]]

\* Popen objects that are still referenced, and the processes still running
ProcRefs(S, C, R, L) ==
  {S[p] : p \in DOMAIN S} \cup {C[k].proc : k \in DOMAIN C} \cup DOMAIN R \cup {L[t].proc : t \in Threads}
Kept(P, refs) == [pid \in {x \in DOMAIN P : P[x].alive \/ x \in refs} |-> P[pid]]
Reap(P, S, C, R, L) == Kept(P, ProcRefs(S, C, R, L))

\* dict objects that are still referenced
HeapRefs(C, L) ==
  UNION {C[k].last_json : k \in DOMAIN C}
  \cup UNION {UNION {L[t].snap[k].json : k \in DOMAIN L[t].snap} : t \in Threads}
HeapReap(H, C, L) == [o \in (DOMAIN H) \cap HeapRefs(C, L) |-> H[o]]

(***************************************************************************)
(* AgentService._start_client, up to the release of LOCK after the         *)
(* capacity check (lines 363-374).                                         *)
(***************************************************************************)
\* entries whose process is still running: "dead" is removed
GcClients(C, P) == [k \in {x \in DOMAIN C : Alive(P, C[x].proc)} |-> C[k]]

\* gc: the registry after the removal of "dead"; nbulk: the counted entries
CapacityCheck(task, C, gc, nbulk) ==
  IF ~Has(task, "target") THEN [err |-> "target_required", task |-> task, C |-> C]
  ELSE IF ~Has(task, "port") THEN [err |-> "port_required", task |-> task, C |-> C]
  ELSE IF nbulk + Cardinality(DOMAIN gc) >= MAX_CLIENTS THEN [err |-> "max_clients", task |-> task, C |-> gc]
  ELSE [err |-> "", task |-> task, C |-> gc]

\* result: [err, task, C]
StartClientCheck(data, C, P, nbulk) == CapacityCheck(_normalize_task(data), C, GcClients(C, P), nbulk)

(***************************************************************************)
(* _start_client, lines 375-427: UDP validation, argument list, Popen, key *)
(***************************************************************************)
sTcp == <<"t","c","p">>
sUdp == <<"u","d","p">>

\* lines 375-376
WithProto(task) == IF Has(task, "proto") THEN task ELSE Put(task, "proto", PyStr(sTcp))
IsUdp(task) == StrLower(StrOf(Get(task, "proto", PyStr(sTcp)))) = sUdp

\* lines 381-387: int(parallel) > 1 raises ValueError, as does int() of a
\* string that is no number; any other exception is logged
ParallelCheck(par) ==
  IF IntKind(par) = "ValueError" THEN "ValueError"
  ELSE IF IntKind(par) = "ok" /\ IntVal(par) > 1 THEN "udp_parallel" ELSE ""

\* a validation that forgets the bidir test of line 378
UdpCheckParallelOnly(task) ==
  IF ~IsUdp(task) THEN "" ELSE ParallelCheck(Get(task, "parallel", PyInt(1)))

\* "" when the task passes, else the exception raised by lines 378-387
UdpCheck(task) ==
  IF ~IsUdp(task) THEN ""
  ELSE IF Truthy(Get(task, "bidir", PyNone)) THEN "udp_bidir"
  ELSE ParallelCheck(Get(task, "parallel", PyInt(1)))

\* "" when the argument list is built, else the exception of an int() in lines 398-407
IntFails(v) == IntKind(v) # "ok"
ArgsCheck(task) ==
  IF \/ (Truthy(Get(task, "duration", PyNone)) /\ IntFails(task["duration"]))
     \/ (Get(task, "bytes", PyNone).ty # "none" /\ IntFails(task["bytes"]))
     \/ (Get(task, "blockcount", PyNone).ty # "none" /\ IntFails(task["blockcount"]))
     \/ (Truthy(Get(task, "omit", PyNone)) /\ IntFails(task["omit"]))
     \/ (Truthy(Get(task, "parallel", PyNone)) /\ IntFails(task["parallel"]))
  THEN "args_error" ELSE ""

\* subprocess.Popen raises TypeError for an argument that is not a string
PopenArgsOk(task) == task["target"].ty = "str"

\* the first exception of lines 377-426, "" when there is none
FirstError(errs) == IF \A i \in DOMAIN errs : errs[i] = "" THEN "" ELSE errs[MinOf({i \in DOMAIN errs : errs[i] # ""})]
SpawnError(task, popen_ok) ==
  FirstError(<<UdpCheck(task), ArgsCheck(task),
               IF PopenArgsOk(task) THEN "" ELSE "TypeError",
               IF popen_ok THEN "" ELSE "oserror">>)

Direction(task) ==
  IF Truthy(Get(task, "bidir", PyNone)) THEN "B"
  ELSE IF Truthy(Get(task, "reverse", PyNone)) THEN "R" ELSE "F"

\* line 427: f"{target}:{port}:{B|R|F}:{time.time()}"
ClientKey(task, time) ==
  StrOf(task["target"]) \o <<":">> \o StrOf(task["port"]) \o <<":">> \o <<Direction(task)>> \o <<":">> \o NatStr(time)

NewInfo(pid, task) == [proc |-> pid, task |-> task, last_json |-> None, exit_code |-> None]

(***************************************************************************)
(* The reader thread of a client (lines 429-558).  A line is given by the  *)
(* matcher that accepts it and the values the matcher yields.              *)
(***************************************************************************)
Line(kind, raises, role, mbps, bytes, jitter, loss) ==
  [kind |-> kind, raises |-> raises, role |-> role, mbps |-> mbps, bytes |-> bytes, jitter |-> jitter, loss |-> loss]
\* the end of the output
NoLine == Line("none", FALSE, "", None, None, None, None)

SetIf(lj, k, v) == IF v = None THEN lj ELSE Put(lj, k, The(v))

\* lines 479-492: the merge of a UDP interval line
MergeUdp(lj, ln, rev) ==
  SetIf(SetIf(SetIf(SetIf(lj, IF rev THEN "interval_dn_mbps" ELSE "interval_up_mbps", ln.mbps),
                          IF rev THEN "interval_dn_bytes" ELSE "interval_up_bytes", ln.bytes),
                    "jitter_ms", ln.jitter),
              "loss_pct", ln.loss)

\* lines 516-528: the merge of a TCP line with a [TX-C] or [RX-C] marker
MergeTcpBr(lj, ln) ==
  IF ln.role = "TX-C" THEN SetIf(SetIf(lj, "interval_up_mbps", ln.mbps), "interval_up_bytes", ln.bytes)
  ELSE IF ln.role = "RX-C" THEN SetIf(SetIf(lj, "interval_dn_mbps", ln.mbps), "interval_dn_bytes", ln.bytes)
  ELSE SetIf(lj, "interval_mbps", ln.mbps)

\* lines 540-545: the merge of a generic interval line
MergeGeneric(lj, ln) ==
  IF ln.role = "sender" THEN Put(lj, "interval_up_mbps", The(ln.mbps))
  ELSE IF ln.role = "receiver" THEN Put(lj, "interval_dn_mbps", The(ln.mbps))
  ELSE Put(lj, "interval_mbps", The(ln.mbps))

MergeLine(lj, ln, rev) ==
  CASE ln.kind = "udp" -> MergeUdp(lj, ln, rev)
    [] ln.kind = "tcp_br" -> MergeTcpBr(lj, ln)
    [] OTHER -> MergeGeneric(lj, ln)

NewObj(H) == MinOf({n \in 1..(Cardinality(DOMAIN H) + 1) : n \notin DOMAIN H})

\* a merge that starts from a new dict every time ("lj = {}")
MergeTargetFresh(info, H) == NewObj(H)

\* "lj = info.get('last_json') or {}": the dict of the entry, or a new one when
\* there is none or it is empty
MergeTarget(info, H) ==
  IF info.last_json # None /\ H[The(info.last_json)] # EmptyDict THEN The(info.last_json) ELSE NewObj(H)

\* the dict behind a reference, {} for a new object
Deref(H, obj) == IF obj \in DOMAIN H THEN H[obj] ELSE EmptyDict

\* the lines 474-493, 512-529 and 536-546, all under LOCK
ReaderMerge(pid, ln) ==
  /\ pid \in DOMAIN reader
  /\ ln.kind \in {"udp", "tcp_br", "generic"} /\ ~ln.raises
  /\ IF ~Has(CLIENT_PROCS, reader[pid].key)
     THEN UNCHANGED <<CLIENT_PROCS, heap>>
     ELSE \E info \in {CLIENT_PROCS[reader[pid].key]} : \E obj \in {MergeTarget(info, heap)} :
            /\ obj <= MaxObjs
            /\ CLIENT_PROCS' = [CLIENT_PROCS EXCEPT ![reader[pid].key].last_json = Some(obj)]
            /\ heap' = HeapReap(Put(heap, obj, MergeLine(Deref(heap, obj), ln, Truthy(Get(info.task, "reverse", PyNone)))),
                                CLIENT_PROCS', loc)
  /\ UNCHANGED <<otherVars, runVars, cfgVars, httpd, mainPc, SERVER_PROCS, bulk, procs, reader, now, pc, req, loc, view>>
  /\ last' = NoSent

\* the exit codes of a client subprocess: success and failure
ExitCodes == {0, 1}

\* proc.poll() of line 548: None while the process runs, its exit code
\* afterwards
Poll(P, pid) == IF Alive(P, pid) THEN {None} ELSE {Some(c) : c \in ExitCodes}

\* an entry left in the registry with its exit code
RecordedOnly(C, key, code) == IF Has(C, key) THEN [C EXCEPT ![key].exit_code = code] ELSE C

\* lines 554-558, one critical section: the exit code is written into the
\* entry registered under the key, if there is one, and the key is removed
Recorded(C, key, code) == IF Has(C, key) THEN Pop([C EXCEPT ![key].exit_code = code], key) ELSE C

\* the finally block, lines 547-558: reached at the end of the output, or when
\* lines 500-511 raise on a marker line whose number does not convert
ReaderExit(pid, ln) ==
  /\ pid \in DOMAIN reader
  /\ \/ ln.kind = "none" /\ ~Alive(procs, pid)
     \/ ln.kind = "tcp_br" /\ ln.raises
  /\ \E code \in Poll(procs, pid) : CLIENT_PROCS' = Recorded(CLIENT_PROCS, reader[pid].key, code)
  /\ reader' = Pop(reader, pid)
  /\ procs' = Reap(procs, SERVER_PROCS, CLIENT_PROCS', reader', loc)
  /\ heap' = HeapReap(heap, CLIENT_PROCS', loc)
  /\ UNCHANGED <<otherVars, runVars, cfgVars, httpd, mainPc, SERVER_PROCS, bulk, now, pc, req, loc, view>>
  /\ last' = NoSent

(***************************************************************************)
(* The environment: subprocesses exit, the clock advances.                 *)
(***************************************************************************)
ProcExit(pid) ==
  /\ pid \in DOMAIN procs /\ procs[pid].alive
  /\ pid[1] = "s" => pid[2] \in 1..MaxExitPort
  /\ procs' = Reap([procs EXCEPT ![pid].alive = FALSE], SERVER_PROCS, CLIENT_PROCS, reader, loc)
  /\ UNCHANGED <<otherVars, runVars, cfgVars, httpd, mainPc, SERVER_PROCS, CLIENT_PROCS, bulk, heap, reader, now, pc, req, loc, view>>
  /\ last' = NoSent

Tick ==
  /\ now < MaxTime
  /\ now' = now + 1
  /\ UNCHANGED <<otherVars, runVars, cfgVars, httpd, mainPc, SERVER_PROCS, CLIENT_PROCS, bulk, procs, heap, reader, pc, req, loc, view>>
  /\ last' = NoSent

(***************************************************************************)
(* Servers: _start_server_port and the loop of /server/start (lines        *)
(* 717-735).  env.popen_ok: Popen finds the binary; env.early: the ports   *)
(* whose new process exits within the 150 ms grace period.                 *)
(***************************************************************************)
Spawned(P, pid) == [err |-> "", pid |-> pid, P |-> Put(P, pid, NewProc)]

\* result: [err, pid, P]
_start_server_port(P, port, env) ==
  IF ~env.popen_ok THEN [err |-> "oserror", pid |-> NoPid, P |-> P]
  ELSE IF port \in env.early THEN [err |-> "exited_immediately", pid |-> NoPid, P |-> P]
  ELSE Spawned(P, NewPid(P, "s", port))

\* a batch that ends at the first port that fails to start
StartedOrAbort(acc, port, r) ==
  IF r.err # "" THEN [acc EXCEPT !.errors = Put(@, StrOf(PyInt(port)), r.err), !.rest = <<>>]
  ELSE [acc EXCEPT !.S = Put(@, port, r.pid), !.P = r.P, !.started = Append(@, port)]

\* lines 729-735.  acc: [rest, S, P, started, already, errors], rest: the
\* elements of ports still to come
Started(acc, port, r) ==
  IF r.err # "" THEN [acc EXCEPT !.errors = Put(@, StrOf(PyInt(port)), r.err)]
  ELSE [acc EXCEPT !.S = Put(@, port, r.pid), !.P = r.P, !.started = Append(@, port)]

\* lines 723-735
StartPort(acc, port, env) ==
  IF Has(acc.S, port) THEN [acc EXCEPT !.already = Append(@, port)]
  ELSE IF Cardinality(DOMAIN acc.S) >= MAX_SERVERS
  THEN [acc EXCEPT !.errors = Put(@, StrOf(PyInt(port)), "max_servers")]
  ELSE Started(acc, port, _start_server_port(acc.P, port, env))

\* lines 718-722
StartItem(acc, v, env) ==
  IF IntKind(v) # "ok" THEN [acc EXCEPT !.errors = Put(@, StrOf(v), "invalid_port")]
  ELSE StartPort(acc, IntVal(v), env)

RECURSIVE ServerStartLoop(_, _)
ServerStartLoop(acc, env) ==
  IF acc.rest = <<>> THEN acc
  ELSE ServerStartLoop(StartItem([acc EXCEPT !.rest = Tail(@)], Head(acc.rest), env), env)

\* a registry that keeps the entries whose process has exited
GcServersKeep(S, P) == S

\* lines 714-716: the entries whose process is still running
GcServers(S, P) == [p \in {x \in DOMAIN S : Alive(P, S[x])} |-> S[p]]

\* "for port in ports": a list yields its elements, a string its characters
IterOk(v) == v.ty \in {"list", "str"}
IterOf(v) == IF v.ty = "list" THEN v.l ELSE [i \in 1..Len(v.s) |-> PyStr(<<v.s[i]>>)]

DefaultPorts == PyList(<<PyInt(5201)>>)

StartReply(acc) ==
  [code |-> 200, error |-> "",
   payload |-> [started |-> acc.started, already_running |-> acc.already, errors |-> acc.errors],
   S |-> acc.S, P |-> acc.P]

\* gc: the registry after the removal of "dead"
ServerStartOn(ports, gc, P, env) ==
  IF ~IterOk(ports)
  THEN [code |-> 500, error |-> "TypeError", payload |-> EmptyDict, S |-> gc, P |-> P]
  ELSE StartReply(ServerStartLoop([rest |-> IterOf(ports), S |-> gc, P |-> P,
                                   started |-> <<>>, already |-> <<>>, errors |-> EmptyDict], env))

\* /server/start, lines 708-737.  result: [code, error, payload, S, P]
ServerStart(data, S, P, env) == ServerStartOn(Get(data, "ports", DefaultPorts), GcServers(S, P), P, env)

\* lines 740-746: the set of ports to stop; None stands for "all"
ToStopOf(rp) ==
  IF rp.ty = "list" /\ rp.l # <<>> /\ \A i \in 1..Len(rp.l) : IntKind(rp.l[i]) = "ok"
  THEN Some({IntVal(rp.l[i]) : i \in 1..Len(rp.l)})
  ELSE None
ToStop(data) == ToStopOf(Get(data, "ports", PyNone))

RECURSIVE StopAll(_, _)
StopAll(P, pids) ==
  IF pids = {} THEN P
  ELSE StopAll(_stop_proc(P, CHOOSE y \in pids : TRUE), pids \ {CHOOSE y \in pids : TRUE})

\* lines 748-753: sel are the registered ports that are stopped and removed
StopPorts(S, P, sel) ==
  [code |-> 200, error |-> "", payload |-> [stopped |-> sel],
   S |-> [p \in (DOMAIN S) \ sel |-> S[p]],
   P |-> StopAll(P, {S[p] : p \in sel})]
Selected(S, to_stop) == {p \in DOMAIN S : to_stop = None \/ p \in The(to_stop)}

\* /server/stop, lines 739-755.  result: [code, error, payload, S, P]
ServerStop(data, S, P) == StopPorts(S, P, Selected(S, ToStop(data)))

\* a /client/stop that removes the entries and leaves the processes running
ClientStopNoKill(C, P, nbulk) ==
  [code |-> 200, error |-> "", payload |-> [stopped_clients |-> nbulk + Cardinality(DOMAIN C)],
   C |-> EmptyDict, P |-> P]

\* /client/stop, lines 769-777.  result: [code, error, payload, C, P];
\* nbulk: the counted entries, which are stopped and removed as well
ClientStop(C, P, nbulk) ==
  [code |-> 200, error |-> "", payload |-> [stopped_clients |-> nbulk + Cardinality(DOMAIN C)],
   C |-> EmptyDict, P |-> StopAll(P, {C[k].proc : k \in DOMAIN C})]

(***************************************************************************)
(* Handler.do_POST (lines 690-784).  The part of a request that runs       *)
(* without touching shared state and its first critical section are one    *)
(* step; /client/start continues in StartClientSpawn.                      *)
(***************************************************************************)
\* line 693: (self.headers.get('X-API-Key') or '').strip()
HeaderToken(r) == StrStrip(IF r.key = None THEN <<>> ELSE The(r.key))
\* line 698: self.headers.get('Content-Length', '0')
ContentLength(r) == IF r.clen = None THEN <<"0">> ELSE The(r.clen)
\* a token check that lets a request without the header pass
ForbiddenIfSent(r) == api_token # <<>> /\ r.key # None /\ HeaderToken(r) # api_token
\* lines 692-694
Forbidden(r) == api_token # <<>> /\ HeaderToken(r) # api_token
\* a limit that is off by one
TooLargeOffByOne(ln) == ln > MAX_BODY + 1
\* line 699
TooLarge(ln) == ln > MAX_BODY

\* the outcome of a request that changes nothing and sends nothing yet
Same(S, C, P, nbulk) ==
  [code |-> 0, error |-> "", payload |-> EmptyDict, S |-> S, C |-> C, P |-> P,
   bulk |-> nbulk, next |-> "idle", task |-> EmptyDict]

FromServers(same, o) ==
  [same EXCEPT !.code = o.code, !.error = o.error, !.payload = o.payload, !.S = o.S, !.P = o.P]
FromClientCheck(same, o) ==
  IF o.err # "" THEN [same EXCEPT !.code = 500, !.error = o.err, !.C = o.C]
  ELSE [same EXCEPT !.C = o.C, !.next = "cs_spawn", !.task = o.task]
FromClientStop(same, o) ==
  [same EXCEPT !.code = o.code, !.payload = o.payload, !.C = o.C, !.P = o.P, !.bulk = 0]

\* lines 708-779: the routes
Route(r, data, env, same) ==
  CASE r.path = "/server/start" -> FromServers(same, ServerStart(data, same.S, same.P, env))
    [] r.path \in {"server/stop", "/server/stop"} -> FromServers(same, ServerStop(data, same.S, same.P))
    [] r.path = "/client/start" -> FromClientCheck(same, StartClientCheck(data, same.C, same.P, same.bulk))
    [] r.path = "/client/stop" -> FromClientStop(same, ClientStop(same.C, same.P, same.bulk))
    [] OTHER -> [same EXCEPT !.code = 404, !.error = "not found"]

\* lines 699-706: ln is the declared length of the body
Sized(r, ln, env, same) ==
  IF TooLarge(ln) THEN [same EXCEPT !.code = 413, !.error = "payload too large"]
  ELSE Route(r, IF ln > 0 THEN r.body ELSE EmptyDict, env, same)

\* line 698: int() of the Content-Length header
Measured(r, cl, env, same) ==
  IF ~IntStrOk(cl) THEN [same EXCEPT !.code = 500, !.error = "ValueError"]
  ELSE Sized(r, IntStrVal(cl), env, same)

\* result: [code, error, payload, S, C, P, bulk, next, task]
PostOutcome(r, env, same) ==
  IF Forbidden(r) THEN [same EXCEPT !.code = 403, !.error = "forbidden"]
  ELSE Measured(r, ContentLength(r), env, same)

\* the thread that serves the next connection: the idle threads are alike,
\* the first one is taken
Accepts(t) == httpd /\ pc[t] = "idle" /\ \A u \in Threads : pc[u] = "idle" => t <= u

do_POST(t, r, env) ==
  /\ Accepts(t) /\ r.method = "POST"
  /\ \E o \in {PostOutcome(r, env, Same(SERVER_PROCS, CLIENT_PROCS, procs, bulk))} :
       /\ SERVER_PROCS' = o.S
       /\ CLIENT_PROCS' = o.C
       /\ bulk' = o.bulk
       /\ pc' = [pc EXCEPT ![t] = o.next]
       /\ loc' = [loc EXCEPT ![t] = [NoLocals EXCEPT !.task = o.task]]
       /\ IF o.next = "idle"
          THEN last' = Sent(t, r, o.code, o.error, o.payload, EmptyDict) /\ UNCHANGED req
          ELSE req' = [req EXCEPT ![t] = r] /\ last' = NoSent
       /\ procs' = Reap(o.P, o.S, o.C, reader, loc')
       /\ heap' = HeapReap(heap, o.C, loc')
  /\ UNCHANGED <<otherVars, runVars, cfgVars, httpd, mainPc, reader, now, view>>

\* _start_client lines 375-427, after LOCK was released: validation of UDP
\* tasks, the argument list, Popen and the key
StartClientSpawn(t, popen_ok) ==
  /\ pc[t] = "cs_spawn"
  /\ \E task \in {WithProto(loc[t].task)} : \E err \in {SpawnError(task, popen_ok)} :
       IF err # ""
       THEN /\ pc' = [pc EXCEPT ![t] = "idle"]
            /\ loc' = [loc EXCEPT ![t] = NoLocals]
            /\ req' = [req EXCEPT ![t] = NoReq]
            /\ last' = Sent(t, req[t], 500, err, EmptyDict, EmptyDict)
            /\ UNCHANGED procs
       ELSE /\ Cardinality({x \in DOMAIN procs : x[1] = "c"}) < MaxSpawn
            /\ \E pid \in {NewPid(procs, "c", 0)} :
                 /\ procs' = Put(procs, pid, NewProc)
                 /\ loc' = [loc EXCEPT ![t] = [NoLocals EXCEPT !.task = task, !.proc = pid, !.key = ClientKey(task, now)]]
            /\ pc' = [pc EXCEPT ![t] = "cs_register"]
            /\ UNCHANGED req
            /\ last' = NoSent
  /\ UNCHANGED <<otherVars, runVars, cfgVars, httpd, mainPc, SERVER_PROCS, CLIENT_PROCS, bulk, heap, reader, now, view>>

\* lines 560-568: the entry is stored under LOCK
StartClientRegister(t) ==
  /\ pc[t] = "cs_register"
  /\ CLIENT_PROCS' = Put(CLIENT_PROCS, loc[t].key, NewInfo(loc[t].proc, loc[t].task))
  /\ pc' = [pc EXCEPT ![t] = "cs_thread"]
  /\ heap' = HeapReap(heap, CLIENT_PROCS', loc)
  /\ procs' = Reap(procs, SERVER_PROCS, CLIENT_PROCS', reader, loc)
  /\ UNCHANGED <<otherVars, runVars, cfgVars, httpd, mainPc, SERVER_PROCS, bulk, reader, now, req, loc, view>>
  /\ last' = NoSent

\* lines 569-570 and 766: the reader thread starts, the key is returned
StartClientThread(t) ==
  /\ pc[t] = "cs_thread"
  /\ reader' = Put(reader, loc[t].proc, [key |-> loc[t].key])
  /\ pc' = [pc EXCEPT ![t] = "idle"]
  /\ last' = Sent(t, req[t], 200, "", [client_key |-> loc[t].key], EmptyDict)
  /\ req' = [req EXCEPT ![t] = NoReq]
  /\ loc' = [loc EXCEPT ![t] = NoLocals]
  /\ UNCHANGED <<otherVars, runVars, cfgVars, httpd, mainPc, SERVER_PROCS, CLIENT_PROCS, bulk, procs, heap, now, view>>

(***************************************************************************)
(* Handler.do_GET (lines 648-688): the critical section collects the       *)
(* entries, with last_json by reference; json.dumps runs afterwards.       *)
(***************************************************************************)
SnapOf(C, withTask) ==
  [k \in DOMAIN C |-> [task |-> IF withTask THEN C[k].task ELSE EmptyDict,
                       json |-> C[k].last_json, exit_code |-> C[k].exit_code]]

\* what json.dumps writes for a collected list: the dicts as they are now
Rendered(snap, H) ==
  [k \in DOMAIN snap |-> [task |-> snap[k].task,
                          json |-> IF snap[k].json = None THEN None ELSE Some(H[The(snap[k].json)]),
                          exit_code |-> snap[k].exit_code]]

\* lines 650-665 and 677-685: what the handler keeps when it leaves LOCK
Collected(path, S, snap) ==
  [NoLocals EXCEPT !.kind = path, !.servers = IF path = "/status" THEN DOMAIN S ELSE {}, !.snap = snap]

do_GET(t, r) ==
  /\ Accepts(t) /\ r.method = "GET"
  /\ IF r.path \in {"/status", "/metrics"}
     THEN /\ SERVER_PROCS' = IF r.path = "/status" THEN GcServers(SERVER_PROCS, procs) ELSE SERVER_PROCS
          /\ \E snap \in {SnapOf(CLIENT_PROCS, r.path = "/metrics")} :
               /\ loc' = [loc EXCEPT ![t] = Collected(r.path, SERVER_PROCS', snap)]
               /\ view' = [view EXCEPT ![t] = Rendered(snap, heap)]
          /\ pc' = [pc EXCEPT ![t] = "dump"]
          /\ req' = [req EXCEPT ![t] = r]
          /\ last' = NoSent
     ELSE /\ last' = Sent(t, r, 404, "not found", EmptyDict, EmptyDict)
          /\ UNCHANGED <<SERVER_PROCS, loc, view, pc, req>>
  /\ procs' = Reap(procs, SERVER_PROCS', CLIENT_PROCS, reader, loc')
  /\ UNCHANGED <<otherVars, runVars, cfgVars, httpd, mainPc, CLIENT_PROCS, bulk, heap, reader, now>>

\* lines 666-674 and 686: the body of the response
Body(kind, servers, clients) ==
  IF kind = "/status" THEN [servers |-> servers, clients |-> clients] ELSE [metrics |-> clients]

\* Handler._json after the critical section of /status or /metrics
SendJson(t) ==
  /\ pc[t] = "dump"
  /\ last' = Sent(t, req[t], 200, "", Body(loc[t].kind, loc[t].servers, Rendered(loc[t].snap, heap)),
                  Body(loc[t].kind, loc[t].servers, view[t]))
  /\ pc' = [pc EXCEPT ![t] = "idle"]
  /\ req' = [req EXCEPT ![t] = NoReq]
  /\ loc' = [loc EXCEPT ![t] = NoLocals]
  /\ view' = [view EXCEPT ![t] = EmptyDict]
  /\ heap' = HeapReap(heap, CLIENT_PROCS, loc')
  /\ UNCHANGED <<otherVars, runVars, cfgVars, httpd, mainPc, SERVER_PROCS, CLIENT_PROCS, bulk, procs, reader, now>>

(***************************************************************************)
(* AgentService.start (lines 792-822)                                      *)
(***************************************************************************)
\* lines 793-814: the HTTP server thread runs from here on
StartService ==
  /\ mainPc = "new" /\ ~httpd
  /\ httpd' = TRUE
  /\ mainPc' = IF autostart_ports # <<>> THEN "autostart" ELSE "running"
  /\ UNCHANGED <<otherVars, runVars, cfgVars, SERVER_PROCS, CLIENT_PROCS, bulk, procs, heap, reader, now, pc, req, loc, view>>
  /\ last' = NoSent

\* lines 819-820.  acc: [rest, S, P], rest: the ports still to come
Registered(acc, port, r) == IF r.err # "" THEN acc ELSE [acc EXCEPT !.S = Put(@, port, r.pid), !.P = r.P]

\* lines 817-822
AutostartItem(acc, v, env) ==
  IF IntKind(v) # "ok" THEN acc ELSE Registered(acc, IntVal(v), _start_server_port(acc.P, IntVal(v), env))

RECURSIVE AutostartLoop(_, _)
AutostartLoop(acc, env) ==
  IF acc.rest = <<>> THEN acc
  ELSE AutostartLoop(AutostartItem([acc EXCEPT !.rest = Tail(@)], Head(acc.rest), env), env)

\* lines 815-822, under LOCK
Autostart(env) ==
  /\ mainPc = "autostart"
  /\ \E acc \in {AutostartLoop([rest |-> autostart_ports, S |-> SERVER_PROCS, P |-> procs], env)} :
       /\ SERVER_PROCS' = acc.S
       /\ procs' = Reap(acc.P, acc.S, CLIENT_PROCS, reader, loc)
  /\ mainPc' = "running"
  /\ UNCHANGED <<otherVars, runVars, cfgVars, httpd, CLIENT_PROCS, bulk, heap, reader, now, pc, req, loc, view>>
  /\ last' = NoSent

(***************************************************************************)
(* AgentService._stop_proc (lines 243-251), call by call.  env: what each  *)
(* method of the Popen object does: terminate and kill return ("ok") or    *)
(* raise OSError; wait returns when the process has exited within the      *)
(* timeout, or raises TimeoutExpired or OSError.                           *)
(***************************************************************************)
STOP_WAIT == 2

Call(op, timeout, res) == [op |-> op, timeout |-> timeout, res |-> res]

\* the try block, lines 244-246: it ends at the first call that raises
StopTry(env) ==
  IF env.terminate # "ok" THEN <<Call("terminate", 0, env.terminate)>>
  ELSE <<Call("terminate", 0, "ok"), Call("wait", STOP_WAIT, env.wait)>>

\* "except (subprocess.TimeoutExpired, OSError)" that leaves OSError out
StopCaughtTimeoutOnly(exc) == exc \in {"TimeoutExpired"}

\* "except (subprocess.TimeoutExpired, OSError)", line 247
StopCaught(exc) == exc \in {"TimeoutExpired", "OSError"}

\* lines 248-251: kill(), whose OSError is passed over
StopKill(calls, env) ==
  [calls |-> Append(calls, Call("kill", 0, env.kill)),
   raised |-> IF env.kill \in {"ok", "OSError"} THEN "" ELSE env.kill]

\* the calls made on the Popen object and the exception that leaves
\* _stop_proc ("" when it returns)
StopFrom(calls, env) ==
  IF calls[Len(calls)].res = "ok" THEN [calls |-> calls, raised |-> ""]
  ELSE IF StopCaught(calls[Len(calls)].res) THEN StopKill(calls, env)
  ELSE [calls |-> calls, raised |-> calls[Len(calls)].res]
StopCalls(env) == StopFrom(StopTry(env), env)

\* the process has exited when wait returned or kill went through
StopExits(r) == \E i \in 1..Len(r.calls) : r.calls[i].op \in {"wait", "kill"} /\ r.calls[i].res = "ok"

StopEnvs == [terminate : {"ok", "OSError"}, wait : {"ok", "TimeoutExpired", "OSError"}, kill : {"ok", "OSError"}]

\* one call of _stop_proc on a process that was not stopped before
StopProcCall(pid, env) ==
  /\ pid \in DOMAIN procs /\ ~procs[pid].stopped
  /\ \E r \in {StopCalls(env)} :
       /\ trace' = Append(trace, [proc |-> pid, calls |-> r.calls, raised |-> r.raised])
       /\ procs' = [procs EXCEPT ![pid] = [alive |-> @.alive /\ ~StopExits(r), stopped |-> TRUE]]
  /\ last' = NoSent
  /\ UNCHANGED <<otherVars, cfgVars, httpd, mainPc, SERVER_PROCS, CLIENT_PROCS, bulk, heap, reader, now, pc, req, loc, view,
                 cfg, stop_event, clock, run>>

(***************************************************************************)
(* Inputs.                                                                 *)
(***************************************************************************)
sHost == <<"h">>

\* Popen works and the new processes keep running; Popen fails; the new
\* process on port 1 exits at once
EnvOk == [popen_ok |-> TRUE, early |-> {}]
Envs == {EnvOk, [popen_ok |-> FALSE, early |-> {}], [popen_ok |-> TRUE, early |-> {1}]}

\* a POST with a body of a few bytes and no X-API-Key header
Post(p, b) == Request("POST", p, None, Some(<<"2","0">>), b)
GetReq(p) == Request("GET", p, None, None, EmptyDict)

TaskOf(target, port) == ("target" :> PyStr(target)) @@ ("port" :> PyInt(port))
TaskFwd == TaskOf(sHost, 5201)
TaskRev == TaskFwd @@ ("reverse" :> PyBool(TRUE))

\* the threads of a service that serves no request
IdleThreads ==
  /\ pc = [t \in Threads |-> "idle"]
  /\ req = [t \in Threads |-> NoReq]
  /\ loc = [t \in Threads |-> NoLocals]
  /\ view = [t \in Threads |-> EmptyDict]
  /\ last = NoSent

\* the state of a started service with n clients of long tests
Running(n) ==
  /\ httpd = TRUE /\ mainPc = "running"
  /\ SERVER_PROCS = EmptyDict
  /\ CLIENT_PROCS = EmptyDict
  /\ bulk = n
  /\ procs = EmptyDict
  /\ reader = EmptyDict
  /\ heap = EmptyDict
  /\ now = 0
  /\ IdleThreads

\* len(self.CLIENT_PROCS)
ClientCount == bulk + Cardinality(DOMAIN CLIENT_PROCS)

(***************************************************************************)
(* SpecClients: concurrent /client/start and /client/stop requests, client *)
(* processes that exit, and the clock.                                     *)
(***************************************************************************)
InitClients ==
  /\ NoRun /\ NoOther
  /\ api_token = <<>> /\ autostart_ports = <<>>
  /\ \E n \in {0, MAX_CLIENTS - 1} : Running(n)

ClientReqs == {Post("/client/start", TaskFwd), Post("/client/start", TaskRev), Post("/client/stop", EmptyDict)}

NextClients ==
  \/ \E t \in Threads, r \in ClientReqs : do_POST(t, r, EnvOk)
  \/ \E t \in Threads, ok \in BOOLEAN : StartClientSpawn(t, ok)
  \/ \E t \in Threads : StartClientRegister(t)
  \/ \E t \in Threads : StartClientThread(t)
  \/ \E pid \in DOMAIN reader : ReaderExit(pid, NoLine)
  \/ \E pid \in DOMAIN procs : ProcExit(pid)
  \/ Tick

SpecClients == InitClients /\ [][NextClients]_vars

(***************************************************************************)
(* SpecServers: start() with its autostart, /server/start and /server/stop *)
(* requests, GET /status, and server processes that exit.                  *)
(***************************************************************************)
PortList(n) == [i \in 1..n |-> PyInt(i)]
PortsBody(l) == "ports" :> PyList(l)

\* the values of the autostart_ports argument
AutostartChoices == {<<>>, <<PyInt(1), PyInt(1)>>, PortList(MAX_SERVERS + 1)}

\* a service that was constructed and not started yet
Constructed ==
  /\ httpd = FALSE /\ mainPc = "new"
  /\ SERVER_PROCS = EmptyDict
  /\ CLIENT_PROCS = EmptyDict
  /\ bulk = 0
  /\ procs = EmptyDict
  /\ reader = EmptyDict
  /\ heap = EmptyDict
  /\ now = 0
  /\ IdleThreads

InitServers ==
  /\ NoRun /\ NoOther
  /\ api_token = <<>>
  /\ autostart_ports \in AutostartChoices
  /\ Constructed

ServerReqs ==
  {Post("/server/start", PortsBody(<<PyInt(1)>>)),
   Post("/server/start", PortsBody(<<PyStr(<<"x">>), PyInt(1), PyStr(<<"2">>)>>)),
   Post("/server/start", PortsBody(<<PyInt(MAX_SERVERS + 2)>>)),
   Post("/server/stop", PortsBody(<<PyInt(1)>>)),
   Post("/server/stop", PortsBody(<<PyInt(3), PyStr(<<"x">>)>>)),
   Post("/server/stop", PortsBody(<<>>)),
   Post("/server/stop", EmptyDict)}

NextServers ==
  \/ StartService
  \/ \E env \in Envs : Autostart(env)
  \/ \E t \in Threads, r \in ServerReqs, env \in Envs : do_POST(t, r, env)
  \/ \E pid \in DOMAIN procs : ProcExit(pid)

SpecServers == InitServers /\ [][NextServers]_vars

(***************************************************************************)
(* SpecMetrics: one registered client whose reader thread merges output    *)
(* lines while handler threads serve GET /metrics.                         *)
(***************************************************************************)
\* the output lines, by what the matchers yield for them: a UDP line with all
\* its numbers, one whose jitter does not convert and whose datagram total is
\* 0, one whose rate does not convert (the exception leaves no value); a
\* [TX-C] line, and one whose rate does not convert (the exception ends the
\* reader); a line that only INTERVAL_RE matches, which yields no role
Lines ==
  {Line("udp", FALSE, "", Some(1), Some(1), Some(1), Some(1)),
   Line("udp", FALSE, "", Some(2), Some(2), None, None),
   Line("udp", FALSE, "", None, None, None, None),
   Line("tcp_br", FALSE, "TX-C", Some(1), Some(2), None, None),
   Line("tcp_br", TRUE, "TX-C", None, None, None, None),
   Line("generic", FALSE, "", Some(1), None, None, None),
   NoLine}

\* a started service with one client, registered under its key at time 0
RunningClient(task) ==
  /\ httpd = TRUE /\ mainPc = "running"
  /\ SERVER_PROCS = EmptyDict
  /\ CLIENT_PROCS = (ClientKey(WithProto(task), 0) :> NewInfo(<<"c", 0, 1>>, WithProto(task)))
  /\ bulk = 0
  /\ procs = (<<"c", 0, 1>> :> NewProc)
  /\ reader = (<<"c", 0, 1>> :> [key |-> ClientKey(WithProto(task), 0)])
  /\ heap = EmptyDict
  /\ now = 0
  /\ IdleThreads

InitMetrics ==
  /\ NoRun /\ NoOther
  /\ api_token = <<>> /\ autostart_ports = <<>>
  /\ \E task \in {TaskFwd, TaskRev} : RunningClient(task)

NextMetrics ==
  \/ \E pid \in DOMAIN reader, ln \in Lines : ReaderMerge(pid, ln)
  \/ \E pid \in DOMAIN reader, ln \in Lines : ReaderExit(pid, ln)
  \/ \E t \in Threads : do_GET(t, GetReq("/metrics"))
  \/ \E t \in Threads : SendJson(t)
  \/ \E pid \in DOMAIN procs : ProcExit(pid)

SpecMetrics == InitMetrics /\ [][NextMetrics]_vars

(***************************************************************************)
(* SpecTasks: /client/start requests with tasks of every kind.             *)
(***************************************************************************)
sTrue == <<"t","r","u","e">>
Udp(task) == task @@ ("proto" :> PyStr(sUdp))
Tasks ==
  {TaskFwd,
   Udp(TaskFwd) @@ ("bidir" :> PyBool(TRUE)),
   Udp(TaskFwd) @@ ("bidir" :> PyStr(<<"Y","e","s">>)),
   Udp(TaskFwd) @@ ("parallel" :> PyInt(2)),
   Udp(TaskFwd) @@ ("parallel" :> PyInt(1)),
   Udp(TaskFwd) @@ ("parallel" :> PyStr(<<"x">>)),
   TaskFwd @@ ("protocol" :> PyStr(<<"U","D","P">>)) @@ ("P" :> PyStr(<<" ","2">>)),
   TaskFwd @@ ("protocol" :> PyStr(sUdp)) @@ ("bidir" :> PyStr(sTrue)),
   TaskFwd @@ ("proto" :> PyStr(sTcp)) @@ ("protocol" :> PyStr(sUdp)) @@ ("bidir" :> PyBool(TRUE)),
   "port" :> PyInt(5201),
   "target" :> PyStr(sHost),
   Udp("host" :> PyStr(sHost)) @@ ("bidir" :> PyBool(TRUE))}

InitTasks ==
  /\ NoRun /\ NoOther
  /\ api_token = <<>> /\ autostart_ports = <<>>
  /\ Running(0)

NextTasks ==
  \/ \E t \in Threads, task \in Tasks : do_POST(t, Post("/client/start", task), EnvOk)
  \/ \E t \in Threads : StartClientSpawn(t, TRUE)
  \/ \E t \in Threads : StartClientRegister(t)
  \/ \E t \in Threads : StartClientThread(t)
  \/ \E pid \in DOMAIN reader : ReaderExit(pid, NoLine)
  \/ \E pid \in DOMAIN procs : ProcExit(pid)

SpecTasks == InitTasks /\ [][NextTasks]_vars

(***************************************************************************)
(* SpecHttp: requests with and without the token, with every kind of       *)
(* Content-Length, on every path, against a service with one server.       *)
(***************************************************************************)
sK == <<"k">>
ConfiguredTokens == {<<>>, <<" ">>, sK, <<" ", "k">>}
HeaderTokens == {None, Some(sK), Some(<<"k", " ">>), Some(<<"z">>)}
sFits == <<"6","5","5","3","6">>
Lengths == {None, Some(sFits), Some(<<"6","5","5","3","7">>), Some(<<"x">>)}
PostPaths == {"/server/start", "/server/stop", "/client/start", "/client/stop", "/nope"}
BodyFor(p) ==
  CASE p = "/server/start" -> PortsBody(<<PyInt(2)>>)
    [] p = "/server/stop" -> PortsBody(<<PyInt(1)>>)
    [] p = "/client/start" -> TaskFwd
    [] OTHER -> EmptyDict
HttpPosts == {Request("POST", p, k, c, BodyFor(p)) : p \in PostPaths, k \in HeaderTokens, c \in Lengths}
HttpGets == {GetReq(p) : p \in {"/status", "/metrics"}}

\* a started service with a server on port 1
RunningServer ==
  /\ httpd = TRUE /\ mainPc = "running"
  /\ SERVER_PROCS = (1 :> <<"s", 1, 1>>)
  /\ CLIENT_PROCS = EmptyDict
  /\ bulk = 0
  /\ procs = (<<"s", 1, 1>> :> NewProc)
  /\ reader = EmptyDict
  /\ heap = EmptyDict
  /\ now = 0
  /\ IdleThreads

InitHttp ==
  /\ NoRun /\ NoOther
  /\ \E raw \in ConfiguredTokens : api_token = StrStrip(raw)
  /\ autostart_ports = <<>>
  /\ RunningServer

\* the requests come one after the other: thread 1 serves them all
NextHttp ==
  \/ \E r \in HttpPosts : do_POST(1, r, EnvOk)
  \/ StartClientSpawn(1, TRUE)
  \/ StartClientRegister(1)
  \/ StartClientThread(1)
  \/ \E r \in HttpGets : do_GET(1, r)
  \/ SendJson(1)
  \/ \E pid \in DOMAIN reader : ReaderExit(pid, NoLine)

SpecHttp == InitHttp /\ [][NextHttp]_vars

(***************************************************************************)
(* The properties.                                                         *)
(***************************************************************************)
\* C1: in every reachable state the client registry holds at most
\* MAX_CLIENTS entries.
C1_ClientCapacity == ClientCount <= MAX_CLIENTS

\* C2: in every reachable state, also after the autostart of start(), the
\* server registry holds at most MAX_SERVERS entries.
C2_ServerCapacity == Cardinality(DOMAIN SERVER_PROCS) <= MAX_SERVERS

\* C3: every running server subprocess is the one the registry holds under
\* its port, so there is at most one per port.
C3_OneServerPerPort ==
  \A pid \in DOMAIN procs :
    (pid[1] = "s" /\ procs[pid].alive) => (Has(SERVER_PROCS, pid[2]) /\ SERVER_PROCS[pid[2]] = pid)

\* C4: when a /client/start stores its entry, the key is new: it is not the
\* key of the entry of another client whose process is running.
C4_NewEntry ==
  [][\A t \in Threads :
       (pc[t] = "cs_register" /\ pc'[t] = "cs_thread" /\ Has(CLIENT_PROCS, loc[t].key))
         => ~Alive(procs, CLIENT_PROCS[loc[t].key].proc)]_vars

\* the last-known snapshot of an entry: {} while last_json is None
Content(info, H) == IF info.last_json = None THEN EmptyDict ELSE H[The(info.last_json)]

\* the fields an output line carries for a client in reverse mode or not
Carries(ln, rev) ==
  CASE ln.kind = "udp" ->
         (IF ln.mbps = None THEN {} ELSE {IF rev THEN "interval_dn_mbps" ELSE "interval_up_mbps"})
         \cup (IF ln.bytes = None THEN {} ELSE {IF rev THEN "interval_dn_bytes" ELSE "interval_up_bytes"})
         \cup (IF ln.jitter = None THEN {} ELSE {"jitter_ms"})
         \cup (IF ln.loss = None THEN {} ELSE {"loss_pct"})
    [] ln.kind = "tcp_br" /\ ln.role = "TX-C" ->
         (IF ln.mbps = None THEN {} ELSE {"interval_up_mbps"}) \cup (IF ln.bytes = None THEN {} ELSE {"interval_up_bytes"})
    [] ln.kind = "tcp_br" /\ ln.role = "RX-C" ->
         (IF ln.mbps = None THEN {} ELSE {"interval_dn_mbps"}) \cup (IF ln.bytes = None THEN {} ELSE {"interval_dn_bytes"})
    [] ln.kind = "generic" /\ ln.role = "sender" -> {"interval_up_mbps"}
    [] ln.kind = "generic" /\ ln.role = "receiver" -> {"interval_dn_mbps"}
    [] OTHER -> IF ln.mbps = None THEN {} ELSE {"interval_mbps"}

\* the fields of old that new lacks or holds with another value
Changed(old, new) == {f \in DOMAIN old : f \notin DOMAIN new \/ new[f] # old[f]}

\* C5: while a client stays registered, no step takes a field out of its
\* snapshot or sets the snapshot back to None, and the merge of a line changes
\* no field but the ones the line carries.
C5_PartialMerge ==
  [][/\ \A k \in (DOMAIN CLIENT_PROCS) \cap (DOMAIN CLIENT_PROCS') :
          CLIENT_PROCS'[k].proc = CLIENT_PROCS[k].proc =>
            /\ CLIENT_PROCS[k].last_json # None => CLIENT_PROCS'[k].last_json # None
            /\ DOMAIN Content(CLIENT_PROCS[k], heap) \subseteq DOMAIN Content(CLIENT_PROCS'[k], heap')
     /\ \A pid \in DOMAIN reader, ln \in Lines :
          (Has(CLIENT_PROCS, reader[pid].key) /\ ReaderMerge(pid, ln)) =>
            Changed(Content(CLIENT_PROCS[reader[pid].key], heap), Content(CLIENT_PROCS'[reader[pid].key], heap'))
              \subseteq Carries(ln, Truthy(Get(CLIENT_PROCS[reader[pid].key].task, "reverse", PyNone)))]_vars

\* a snapshot that holds the jitter of a full UDP line and the rate of a
\* later line that carried the rate only
C5_Merged ==
  \E k \in DOMAIN CLIENT_PROCS :
    /\ {"interval_up_mbps", "jitter_ms"} \subseteq DOMAIN Content(CLIENT_PROCS[k], heap)
    /\ Content(CLIENT_PROCS[k], heap)["interval_up_mbps"] = 2
    /\ Content(CLIENT_PROCS[k], heap)["jitter_ms"] = 1

\* C6: the body of a /metrics response is what the handler read while it
\* held LOCK.
C6_MetricsSnapshot ==
  (last.req.path = "/metrics" /\ last.code = 200) => last.payload = last.seen

\* what a task asks for: the protocol is proto, or protocol when proto is
\* absent; bidir is the boolean or a word that stands for it; parallel is the
\* field or the first of its aliases
AsksUdp(b) ==
  StrLower(StrOf(IF Has(b, "proto") THEN b["proto"] ELSE Get(b, "protocol", PyStr(sTcp)))) = sUdp
AsksBidir(b) ==
  /\ Has(b, "bidir")
  /\ IF b["bidir"].ty = "str" THEN StrLower(b["bidir"].s) \in TrueWords ELSE Truthy(b["bidir"])
ParallelOf(b) ==
  IF Has(b, "parallel") THEN b["parallel"]
  ELSE IF Has(b, "P") THEN b["P"]
  ELSE IF Has(b, "pairs") THEN b["pairs"]
  ELSE Get(b, "threads", PyInt(1))
AsksParallel(b) == IntKind(ParallelOf(b)) = "ok" /\ IntVal(ParallelOf(b)) > 1
BadTask(b) == ~Has(b, "target") \/ ~Has(b, "port") \/ (AsksUdp(b) /\ (AsksBidir(b) \/ AsksParallel(b)))

\* C7: a /client/start with a task that lacks target or port, or that asks
\* for UDP with bidir or with parallel > 1, is answered 500 with an error; no
\* thread that serves such a request holds a started process, and no entry
\* of the registry holds such a task.
C7_BadTaskRejected ==
  /\ (last.req.path = "/client/start" /\ BadTask(last.req.body)) => (last.code = 500 /\ last.error # "")
  /\ \A t \in Threads : pc[t] \in {"cs_register", "cs_thread"} => ~BadTask(req[t].body)
  /\ \A k \in DOMAIN CLIENT_PROCS : ~BadTask(CLIENT_PROCS[k].task)

\* a UDP task given by the alias protocol, with parallel given by the alias P,
\* was rejected while a client was registered
C7_Rejected ==
  /\ last.code = 500 /\ last.error = "udp_parallel"
  /\ Has(last.req.body, "protocol") /\ Has(last.req.body, "P")
  /\ DOMAIN CLIENT_PROCS # {}

\* the declared length of the body exceeds 64KB
Oversized(r) == r.clen # None /\ IntStrOk(The(r.clen)) /\ IntStrVal(The(r.clen)) > 64 * 1024
\* the request carries the configured token, or none is configured
PassesToken(r) == api_token = <<>> \/ (r.key # None /\ StrStrip(The(r.key)) = api_token)
\* the X-API-Key header is missing or is another text than the token
DiffersFromToken(r) == r.key = None \/ The(r.key) # api_token
\* nothing is started or stopped
Untouched == UNCHANGED <<SERVER_PROCS, CLIENT_PROCS, bulk, procs, reader>>
\* the request a thread is still serving
Serving(t) == IF pc[t] = "idle" THEN NoReq ELSE req[t]

\* C8, as stated: every POST whose declared length exceeds 64KB is answered
\* 413 and changes nothing, whatever the path and the configuration.
C8_AlwaysTooLarge ==
  [][(last'.req.method = "POST" /\ Oversized(last'.req)) => (last'.code = 413 /\ Untouched)]_vars

\* C8, amended: every POST that passes the token check and whose declared
\* length exceeds 64KB is answered 413 at once and changes nothing, whatever
\* the path.
C8_TooLargeAfterToken ==
  [][/\ (last'.req.method = "POST" /\ Oversized(last'.req) /\ PassesToken(last'.req))
          => (last'.code = 413 /\ Untouched)
     /\ \A t \in Threads : ~Oversized(Serving(t)')]_vars

\* a request with the token and a body of 65537 bytes was answered 413, and
\* the server it asked to stop is still registered
C8_Refused ==
  /\ last.code = 413 /\ last.req.path = "/server/stop" /\ last.req.key = Some(sK)
  /\ api_token = sK /\ Has(SERVER_PROCS, 1)

\* C9, as stated: with a token configured, every POST whose X-API-Key header
\* is missing or differs from the token is answered 403 and changes nothing.
C9_DifferentIsForbidden ==
  [][(last'.req.method = "POST" /\ api_token # <<>> /\ DiffersFromToken(last'.req))
        => (last'.code = 403 /\ Untouched)]_vars

\* C9, amended: with a token configured that is not blank, every POST whose
\* X-API-Key header is missing or, with the surrounding whitespace removed,
\* differs from the token without its surrounding whitespace is answered 403
\* at once and changes nothing; GET /status and GET /metrics are answered 200
\* whatever the token.
C9_MismatchIsForbidden ==
  [][/\ (last'.req.method = "POST" /\ api_token # <<>> /\ ~PassesToken(last'.req))
          => (last'.code = 403 /\ Untouched)
     /\ \A t \in Threads : Serving(t)'.method = "POST" => PassesToken(Serving(t)')
     /\ (last'.req.method = "GET" /\ last'.req.path \in {"/status", "/metrics"}) => last'.code = 200]_vars

\* a /server/stop without the header was answered 403 and the server is
\* still registered and running
C9_Refused ==
  /\ last.code = 403 /\ last.req.path = "/server/stop" /\ last.req.key = None
  /\ last.req.clen = Some(sFits)
  /\ Has(SERVER_PROCS, 1) /\ Alive(procs, SERVER_PROCS[1])

\* C10: a /client/stop is answered 200 with the number of entries the
\* registry held; afterwards the registry is empty and the process of every
\* entry it held was stopped; with no entry nothing changes.
C10_ClientStop ==
  [][(last'.req.method = "POST" /\ last'.req.path = "/client/stop") =>
       /\ last'.code = 200
       /\ last'.payload.stopped_clients = ClientCount
       /\ DOMAIN CLIENT_PROCS' = {} /\ bulk' = 0
       /\ \A k \in DOMAIN CLIENT_PROCS :
            CLIENT_PROCS[k].proc \in DOMAIN procs' =>
              (~procs'[CLIENT_PROCS[k].proc].alive /\ procs'[CLIENT_PROCS[k].proc].stopped)
       /\ ClientCount = 0 => UNCHANGED <<SERVER_PROCS, CLIENT_PROCS, bulk, procs, reader, heap>>]_vars

\* a /client/stop removed two entries and stopped a process that was running
C10_Stopped ==
  /\ last.req.path = "/client/stop" /\ last.payload.stopped_clients = 2
  /\ \E pid \in DOMAIN procs : procs[pid].stopped

(***************************************************************************)
(* SpecStatus: GET /status, /server/stop and /server/start requests        *)
(* against a service with servers on ports 1 and 2, whose processes may    *)
(* exit.                                                                   *)
(***************************************************************************)
\* a started service with servers on ports 1 and 2
RunningServers ==
  /\ httpd = TRUE /\ mainPc = "running"
  /\ SERVER_PROCS = (1 :> <<"s", 1, 1>>) @@ (2 :> <<"s", 2, 1>>)
  /\ CLIENT_PROCS = EmptyDict
  /\ bulk = 0
  /\ procs = (<<"s", 1, 1>> :> NewProc) @@ (<<"s", 2, 1>> :> NewProc)
  /\ reader = EmptyDict
  /\ heap = EmptyDict
  /\ now = 0
  /\ IdleThreads

InitStatus ==
  /\ NoRun /\ NoOther
  /\ api_token = <<>> /\ autostart_ports = <<>>
  /\ RunningServers

StatusReqs == {Post("/server/stop", EmptyDict), Post("/server/start", PortsBody(<<PyInt(1)>>))}

NextStatus ==
  \/ \E t \in Threads, r \in StatusReqs : do_POST(t, r, EnvOk)
  \/ \E t \in Threads : do_GET(t, GetReq("/status"))
  \/ \E t \in Threads : SendJson(t)
  \/ \E pid \in DOMAIN procs : ProcExit(pid)

SpecStatus == InitStatus /\ [][NextStatus]_vars

(***************************************************************************)
(* SpecStop: _stop_proc is called on the processes of two servers, one     *)
(* after the other, with every behaviour of terminate, wait and kill; a    *)
(* process may have exited before it is stopped.                           *)
(***************************************************************************)
InitStop ==
  /\ NoRun /\ NoOther
  /\ api_token = <<>> /\ autostart_ports = <<>>
  /\ RunningServers

NextStop ==
  \/ \E pid \in DOMAIN procs, env \in StopEnvs : StopProcCall(pid, env)
  \/ \E pid \in DOMAIN procs : ProcExit(pid)

SpecStop == InitStop /\ [][NextStop]_vars

(***************************************************************************)
(* core.test_runner.run_test (lines 20-164), the controller flow.          *)
(* cfg: [server: the URL of server.agent ("" when absent), clients: the    *)
(* list of client dicts, duration_sec, mode ("" when absent),              *)
(* keep_servers_open (None when absent), top: the task parameters given at *)
(* the top level of the configuration, stop: a stop_event was passed].     *)
(* run: [pc, i, t0], i: the index of the client the loop is at.            *)
(***************************************************************************)
agentVars == <<api_token, autostart_ports, httpd, mainPc, SERVER_PROCS, CLIENT_PROCS, bulk,
               procs, heap, reader, now, pc, req, loc, view, last>>

sBidir == <<"b","i","d","i","r">>
sDownOnly == <<"d","o","w","n","_","o","n","l","y">>
sUpOnly == <<"u","p","_","o","n","l","y">>

\* the calls run_test makes: a POST or a metrics poll that returned (ok) or
\* raised, for client number i of the list (0: the server agent), and a line
\* handed to on_log
Sends(to, i, path, body, ok) == [kind |-> "post", to |-> to, i |-> i, path |-> path, body |-> body, ok |-> ok]
Polls(to, i, ok) == [kind |-> "poll", to |-> to, i |-> i, path |-> "/metrics", body |-> EmptyDict, ok |-> ok]
Logs(msg) == [kind |-> "log", to |-> <<>>, i |-> 0, path |-> msg, body |-> EmptyDict, ok |-> TRUE]

\* a request and, when it raised, the line the except clause logs
Attempt(tr, call, errmsg) == IF call.ok THEN Append(tr, call) ELSE Append(Append(tr, call), Logs(errmsg))

\* lines 46-50: the parameters copied from the top level
CommonKeys == {"proto", "parallel", "omit", "bitrate", "length", "bind", "interval", "local_port", "tos", "reverse", "bidir"}
Given(d, k) == Has(d, k) /\ d[k] # PyNone /\ d[k] # PyStr(<<>>)
Common(top) ==
  [k \in {x \in CommonKeys : Given(top, x)}
        \cup (IF Given(top, "window") \/ Given(top, "tcp_window") THEN {"window"} ELSE {}) |->
     IF k # "window" THEN top[k] ELSE IF Given(top, "window") THEN top["window"] ELSE top["tcp_window"]]

\* line 77: (c.get('mode') or cfg.get('mode') or '').lower()
ModeOf(c, mode) == StrLower(IF Has(c, "mode") /\ Truthy(c["mode"]) THEN c["mode"].s ELSE mode)

\* lines 78-86
Directed(p, mode) ==
  IF mode = sBidir THEN Pop(Put(p, "bidir", PyBool(TRUE)), "reverse")
  ELSE IF mode = sDownOnly THEN Pop(Put(p, "reverse", PyBool(TRUE)), "bidir")
  ELSE Pop(Pop(p, "reverse"), "bidir")

\* lines 88-91: every other item of the client entry is passed through (an
\* entry holds window or tcp_window, not both)
Overrides(p, c) ==
  [k \in (DOMAIN p) \cup ((DOMAIN c) \ {"name", "agent", "target", "tcp_window"})
         \cup (IF Has(c, "tcp_window") THEN {"window"} ELSE {}) |->
     IF Has(c, k) /\ k \notin {"name", "agent", "target"} THEN c[k]
     ELSE IF k = "window" /\ Has(c, "tcp_window") THEN c["tcp_window"]
     ELSE p[k]]

\* lines 74-76
BasePayload(c, port, duration, common) ==
  [k \in {"target", "port", "duration"} \cup DOMAIN common |->
     IF k \in DOMAIN common THEN common[k]
     ELSE IF k = "target" THEN c["target"]
     ELSE IF k = "port" THEN PyInt(port) ELSE PyInt(duration)]

\* lines 74-91: the task sent for client c
Payload(c, port, config) ==
  Overrides(Directed(BasePayload(c, port, config.duration_sec, Common(config.top)), ModeOf(c, config.mode)), c)

\* line 41: the default of base_port
BASE_PORT == 5211

\* lines 36-63: the configuration is read and the servers are started
RunServerStart(ok) ==
  /\ run.pc = "server_start"
  /\ IF cfg.server # <<>>
     THEN trace' = IF ok THEN Append(Append(trace, Sends(cfg.server, 0, "/server/start", EmptyDict, TRUE)), Logs("server/start OK"))
                   ELSE Attempt(trace, Sends(cfg.server, 0, "/server/start", EmptyDict, FALSE), "server/start error")
     ELSE ok /\ UNCHANGED trace
  /\ run' = [run EXCEPT !.pc = "client_start", !.i = 1]
  /\ UNCHANGED <<otherVars, agentVars, cfg, stop_event, clock>>

\* a loop over the clients that the first failure ends: the exception leaves
\* run_test
RunClientStartOrAbort(ok) ==
  /\ run.pc = "client_start" /\ run.i <= Len(cfg.clients)
  /\ trace' = Append(trace, Sends(cfg.clients[run.i]["agent"].s, run.i, "/client/start",
                                  Payload(cfg.clients[run.i], BASE_PORT + run.i - 1, cfg), ok))
  /\ run' = IF ok THEN [run EXCEPT !.i = @ + 1] ELSE [run EXCEPT !.pc = "raised"]
  /\ UNCHANGED <<otherVars, agentVars, cfg, stop_event, clock>>

\* lines 68-96: one round of "for i, c in enumerate(clients)"
RunClientStart(ok) ==
  /\ run.pc = "client_start" /\ run.i <= Len(cfg.clients)
  /\ \E c \in {cfg.clients[run.i]} :
       IF ~Truthy(Get(c, "target", PyStr(<<>>)))
       THEN ok /\ trace' = Append(trace, Logs("skip empty target"))
       ELSE trace' = Attempt(trace, Sends(c["agent"].s, run.i, "/client/start",
                                          Payload(c, BASE_PORT + run.i - 1, cfg), ok), "client/start error")
  /\ run' = [run EXCEPT !.i = @ + 1]
  /\ UNCHANGED <<otherVars, agentVars, cfg, stop_event, clock>>

\* lines 98-110: the columns are prepared, t0 = time.time()
RunPollStart ==
  /\ run.pc = "client_start" /\ run.i > Len(cfg.clients)
  /\ run' = [run EXCEPT !.pc = "poll_check", !.t0 = clock]
  /\ UNCHANGED <<otherVars, agentVars, cfg, stop_event, clock, trace>>

\* a loop that looks at the clock and never at the stop event
StopSeenNever(config, ev) == FALSE

\* line 112: stop_event is not None and stop_event.is_set()
StopSeen(config, ev) == config.stop /\ ev

\* lines 111-114: the head of the poll loop
RunPollCheck ==
  /\ run.pc = "poll_check"
  /\ IF clock - run.t0 > cfg.duration_sec + 1
     THEN run' = [run EXCEPT !.pc = "client_stop", !.i = 1] /\ UNCHANGED trace
     ELSE IF StopSeen(cfg, stop_event)
     THEN run' = [run EXCEPT !.pc = "client_stop", !.i = 1] /\ trace' = Append(trace, Logs("stop requested"))
     ELSE run' = [run EXCEPT !.pc = "poll", !.i = 1] /\ UNCHANGED trace
  /\ UNCHANGED <<otherVars, agentVars, cfg, stop_event, clock>>

\* lines 119-131: one round of the loop over the clients in an iteration
RunPoll(ok) ==
  /\ run.pc = "poll" /\ run.i <= Len(cfg.clients)
  /\ trace' = Append(trace, Polls(cfg.clients[run.i]["agent"].s, run.i, ok))
  /\ run' = [run EXCEPT !.i = @ + 1]
  /\ UNCHANGED <<otherVars, agentVars, cfg, stop_event, clock>>

\* lines 132-135: the row is kept, time.sleep(poll_interval_sec) of at least
\* 0.2 s; the clock counts the sleeps it takes to pass one second
RunSleep ==
  /\ run.pc = "poll" /\ run.i > Len(cfg.clients)
  /\ clock' = clock + 1
  /\ run' = [run EXCEPT !.pc = "poll_check"]
  /\ UNCHANGED <<otherVars, agentVars, cfg, stop_event, trace>>

\* lines 138-143: one round of "for c in clients"
RunClientStop(ok) ==
  /\ run.pc = "client_stop" /\ run.i <= Len(cfg.clients)
  /\ trace' = Attempt(trace, Sends(cfg.clients[run.i]["agent"].s, run.i, "/client/stop", EmptyDict, ok), "client/stop error")
  /\ run' = [run EXCEPT !.i = @ + 1]
  /\ UNCHANGED <<otherVars, agentVars, cfg, stop_event, clock>>

\* servers that are always kept open
KeepAlways(config) == TRUE

\* line 146: cfg.get('keep_servers_open', True)
Keep(config) == IF config.keep_servers_open = None THEN TRUE ELSE Truthy(The(config.keep_servers_open))

\* lines 146-151
RunServerStop(ok) ==
  /\ run.pc = "client_stop" /\ run.i > Len(cfg.clients)
  /\ IF cfg.server # <<>> /\ ~Keep(cfg)
     THEN trace' = Attempt(trace, Sends(cfg.server, 0, "/server/stop", EmptyDict, ok), "server/stop error")
     ELSE ok /\ UNCHANGED trace
  /\ run' = [run EXCEPT !.pc = "finish"]
  /\ UNCHANGED <<otherVars, agentVars, cfg, stop_event, clock>>

\* lines 153-164: the CSV file is written when a path was given, and the
\* last line is logged
RunFinish ==
  /\ run.pc = "finish"
  /\ trace' = Append(trace, Logs("finished"))
  /\ run' = [run EXCEPT !.pc = "done"]
  /\ UNCHANGED <<otherVars, agentVars, cfg, stop_event, clock>>

\* stop_test sets the event while the run goes on (test_runner_worker.py,
\* line 80)
SetStop ==
  /\ cfg.stop /\ ~stop_event /\ run.pc # "done"
  /\ stop_event' = TRUE
  /\ UNCHANGED <<otherVars, agentVars, cfg, clock, trace, run>>

\* time passes while a request is on its way
ClockTick ==
  /\ clock < MaxClock /\ run.pc # "done"
  /\ clock' = clock + 1
  /\ UNCHANGED <<otherVars, agentVars, cfg, stop_event, trace, run>>

(***************************************************************************)
(* SpecRun: run_test with small configurations, requests that fail, a      *)
(* stop request at any moment.                                             *)
(***************************************************************************)
sA == <<"a">>
sB == <<"b">>
sSrv == <<"s">>
Client(agent, target) == ("name" :> PyStr(agent)) @@ ("agent" :> PyStr(agent)) @@ ("target" :> PyStr(target))
\* the entries of ClientConfig.to_dict: a plain one, one with reverse set,
\* one with a mode of its own, one without a target
ClientA == Client(sA, sHost)
ClientRev == Client(sB, sHost) @@ ("reverse" :> PyBool(TRUE))
ClientDown == Client(sB, sHost) @@ ("mode" :> PyStr(<<"D","o","w","n","_","o","n","l","y">>))
ClientNoTarget == Client(sB, <<>>)

Config(server, clients, mode, keep, top, stop) ==
  [server |-> server, clients |-> clients, duration_sec |-> 0, mode |-> mode,
   keep_servers_open |-> keep, top |-> top, stop |-> stop]

Configs ==
  {Config(sSrv, <<ClientA, ClientRev>>, sBidir, Some(PyBool(FALSE)), EmptyDict, TRUE),
   Config(sSrv, <<ClientA>>, sDownOnly, Some(PyBool(TRUE)), "bidir" :> PyBool(TRUE), TRUE),
   Config(sSrv, <<ClientNoTarget, ClientA>>, <<>>, None, "reverse" :> PyBool(TRUE), FALSE),
   Config(<<>>, <<ClientA, ClientDown>>, sUpOnly, Some(PyBool(FALSE)), EmptyDict, TRUE),
   Config(sSrv, <<>>, sBidir, Some(PyBool(FALSE)), EmptyDict, FALSE)}

\* the agents are other processes: their state plays no part in a run
AgentIdle == api_token = <<>> /\ autostart_ports = <<>> /\ Running(0)

InitRun ==
  /\ AgentIdle /\ NoOther
  /\ cfg \in Configs
  /\ stop_event = FALSE /\ clock = 0 /\ trace = <<>>
  /\ run = [pc |-> "server_start", i |-> 1, t0 |-> 0]

RunStep ==
  \/ \E ok \in BOOLEAN : RunServerStart(ok)
  \/ \E ok \in BOOLEAN : RunClientStart(ok)
  \/ RunPollStart
  \/ RunPollCheck
  \/ \E ok \in BOOLEAN : RunPoll(ok)
  \/ RunSleep
  \/ \E ok \in BOOLEAN : RunClientStop(ok)
  \/ \E ok \in BOOLEAN : RunServerStop(ok)
  \/ RunFinish

NextRun ==
  \/ \E ok \in BOOLEAN : RunServerStart(ok)
  \/ \E ok \in BOOLEAN : RunClientStart(ok)
  \/ RunPollStart
  \/ RunPollCheck
  \/ \E ok \in BOOLEAN : RunPoll(ok)
  \/ RunSleep
  \/ \E ok \in BOOLEAN : RunClientStop(ok)
  \/ \E ok \in BOOLEAN : RunServerStop(ok)
  \/ RunFinish
  \/ SetStop
  \/ ClockTick

SpecRun == InitRun /\ [][NextRun]_vars
\* the thread that runs run_test is scheduled, and every request returns or
\* raises within its timeout
SpecRunFair == SpecRun /\ WF_vars(RunStep)

(***************************************************************************)
(* ui.workers.test_runner_worker.TestRunnerWorker: the custom flow of an   *)
(* up_only or down_only test (_run_custom_flow, lines 89-178), stop_test   *)
(* (lines 78-85) and the thread it starts (_stop_agents, lines 247-271).   *)
(* run: [pc: the position of the flow thread, starting: the clients whose  *)
(* _start_one_client thread has not sent its request yet, stopper: the     *)
(* position of the _stop_agents thread, i: the client it is at, waited:    *)
(* the seconds since _wait_servers_alive began].                           *)
(***************************************************************************)
\* the seconds _wait_servers_alive waits at most (line 115, timeout=3.0)
WAIT_ALIVE == 3

\* a GET of /status by _wait_servers_alive; ok: the answer arrived and lists
\* every requested port as alive
Asks(to, ok) == [kind |-> "status", to |-> to, i |-> 0, path |-> "/status", body |-> EmptyDict, ok |-> ok]

\* lines 91-111 and 117-118: the ports are computed and /server/start is
\* sent; _wait_servers_alive is called when the request returned, and is
\* skipped when it raised
CustomServerStart(ok) ==
  /\ run.pc = "server_start"
  /\ trace' = IF ok THEN Append(Append(trace, Sends(cfg.server, 0, "/server/start", EmptyDict, TRUE)), Logs("server/start OK"))
              ELSE Attempt(trace, Sends(cfg.server, 0, "/server/start", EmptyDict, FALSE), "server/start FAIL")
  /\ run' = [run EXCEPT !.pc = IF ok THEN "alive" ELSE "spawn", !.waited = 0]
  /\ UNCHANGED <<otherVars, agentVars, cfg, stop_event, clock>>

\* _wait_servers_alive, lines 207-225: one round of the loop, entered while
\* no more than timeout seconds have passed; the round returns when /status
\* lists every wanted port as alive, and otherwise (a port missing, or the
\* request raised) sleeps and goes round again. The time since t0 is counted
\* in whole seconds, one for each round.
WaitServersAlive(ok) ==
  /\ run.pc = "alive" /\ run.waited <= WAIT_ALIVE
  /\ trace' = Append(trace, Asks(cfg.server, ok))
  /\ run' = [run EXCEPT !.pc = IF ok THEN "spawn" ELSE "alive", !.waited = @ + 1]
  /\ UNCHANGED <<otherVars, agentVars, cfg, stop_event, clock>>

\* line 207: the loop ends when more than timeout seconds have passed
WaitServersExpired ==
  /\ run.pc = "alive" /\ run.waited > WAIT_ALIVE
  /\ run' = [run EXCEPT !.pc = "spawn"]
  /\ UNCHANGED <<otherVars, agentVars, cfg, stop_event, clock, trace>>

\* lines 120-159: the payloads are built, one thread per client is started
\* and joined for at most 0.2 s
CustomSpawn ==
  /\ run.pc = "spawn"
  /\ run' = [run EXCEPT !.pc = "wait", !.starting = 1..Len(cfg.clients)]
  /\ UNCHANGED <<otherVars, agentVars, cfg, stop_event, clock, trace>>

\* _start_one_client, lines 180-194
StartOneClient(i, ok) ==
  /\ i \in run.starting
  /\ trace' = Attempt(trace, Sends(cfg.clients[i]["agent"].s, i, "/client/start", EmptyDict, ok), "client/start FAIL")
  /\ run' = [run EXCEPT !.starting = @ \ {i}]
  /\ UNCHANGED <<otherVars, agentVars, cfg, stop_event, clock>>

\* line 162: self._stop_event.wait(timeout=dur) returns when the event is
\* set, or when dur seconds have passed
CustomWait ==
  /\ run.pc = "wait"
  /\ stop_event \/ clock >= cfg.duration_sec
  /\ run' = [run EXCEPT !.pc = "finally"]
  /\ UNCHANGED <<otherVars, agentVars, cfg, stop_event, clock, trace>>

\* the duration passes
CustomTick ==
  /\ run.pc = "wait" /\ clock < cfg.duration_sec
  /\ clock' = clock + 1
  /\ UNCHANGED <<otherVars, agentVars, cfg, stop_event, trace, run>>

\* lines 166-178, the finally block
CustomFinally(ok) ==
  /\ run.pc = "finally"
  /\ IF ~Keep(cfg)
     THEN trace' = Append(Append(trace, Sends(cfg.server, 0, "/server/stop", EmptyDict, ok)), Logs("custom_done"))
     ELSE ok /\ trace' = Append(trace, Logs("custom_done"))
  /\ run' = [run EXCEPT !.pc = "done"]
  /\ UNCHANGED <<otherVars, agentVars, cfg, stop_event, clock>>

\* stop_test, lines 78-85: the stop button passes the configuration, the
\* closing window passes none
StopTest(withCfg) ==
  /\ run.pc # "done" /\ run.stopper = "none"
  /\ stop_event' = TRUE
  /\ run' = [run EXCEPT !.stopper = IF withCfg THEN "clients" ELSE "done", !.i = 1]
  /\ UNCHANGED <<otherVars, agentVars, cfg, clock, trace>>

\* _stop_agents, lines 248-259: one round of the loop over the clients
StopAgentsClient(ok) ==
  /\ run.stopper = "clients" /\ run.i <= Len(cfg.clients)
  /\ trace' = Attempt(trace, Sends(cfg.clients[run.i]["agent"].s, run.i, "/client/stop", EmptyDict, ok), "STOP client")
  /\ run' = [run EXCEPT !.i = @ + 1]
  /\ UNCHANGED <<otherVars, agentVars, cfg, stop_event, clock>>

\* _stop_agents, lines 260-271
StopAgentsServer(ok) ==
  /\ run.stopper = "clients" /\ run.i > Len(cfg.clients)
  /\ IF ~Keep(cfg)
     THEN trace' = Attempt(trace, Sends(cfg.server, 0, "/server/stop", EmptyDict, ok), "STOP server")
     ELSE ok /\ UNCHANGED trace
  /\ run' = [run EXCEPT !.stopper = "done"]
  /\ UNCHANGED <<otherVars, agentVars, cfg, stop_event, clock>>

(***************************************************************************)
(* SpecCustom: an up_only or down_only test of two clients, with requests  *)
(* that fail and a stop request at any moment of the run.                  *)
(***************************************************************************)
\* [the configuration, the duration of the test]
CustomConfigs ==
  {Config(sSrv, <<ClientA, Client(sB, sHost)>>, sUpOnly, Some(PyBool(FALSE)), EmptyDict, TRUE),
   [Config(sSrv, <<ClientA>>, sDownOnly, Some(PyBool(TRUE)), EmptyDict, TRUE) EXCEPT !.duration_sec = MaxClock],
   Config(sSrv, <<ClientA>>, sDownOnly, None, EmptyDict, TRUE)}

InitCustom ==
  /\ AgentIdle /\ NoOther
  /\ cfg \in CustomConfigs
  /\ stop_event = FALSE /\ clock = 0 /\ trace = <<>>
  /\ run = [pc |-> "server_start", starting |-> {}, stopper |-> "none", i |-> 1, waited |-> 0]

NextCustom ==
  \/ \E ok \in BOOLEAN : CustomServerStart(ok)
  \/ \E ok \in BOOLEAN : WaitServersAlive(ok)
  \/ WaitServersExpired
  \/ CustomSpawn
  \/ \E i \in 1..Len(cfg.clients), ok \in BOOLEAN : StartOneClient(i, ok)
  \/ CustomWait
  \/ CustomTick
  \/ \E ok \in BOOLEAN : CustomFinally(ok)
  \/ \E withCfg \in BOOLEAN : StopTest(withCfg)
  \/ \E ok \in BOOLEAN : StopAgentsClient(ok)
  \/ \E ok \in BOOLEAN : StopAgentsServer(ok)

SpecCustom == InitCustom /\ [][NextCustom]_vars

(***************************************************************************)
(* core.net_utils: _to_float (lines 15-20), http_get_json (lines 126-158)  *)
(* and poll_metrics (lines 179-233).  A float is written as the integer of *)
(* the same value; the Mbps values are whole numbers.  The object /metrics *)
(* returns is [metrics: a list of entries [json: the snapshot dict, None   *)
(* for null]].                                                             *)
(***************************************************************************)
\* float(x): numbers and booleans convert, strings that hold an integer
\* literal convert, None, lists and other strings raise
_to_float(x, default) ==
  IF x.ty = "int" THEN PyInt(x.n)
  ELSE IF x.ty = "bool" THEN PyInt(IF x.b THEN 1 ELSE 0)
  ELSE IF x.ty = "str" /\ IntStrOk(x.s) THEN PyInt(IntStrVal(x.s))
  ELSE default

\* one attempt of a GET: the JSON value of a 2xx answer ("ok"), an answer
\* with another status ("status"), a 2xx answer whose body is no JSON
\* ("nonjson": json.loads raises ValueError), ConnectionRefusedError
\* ("refused"), socket.timeout ("timeout"), http.client.HTTPException
\* ("protocol")
Fetched(kind, obj) == [kind |-> kind, obj |-> obj]
IsOSError(kind) == kind \in {"refused", "timeout"}

\* what http_get_json does: it returns obj (None, or the object), or raises
Got(raised, obj) == [raised |-> raised, obj |-> obj]

\* a retry that hands on the exception of the second attempt
HttpGetRetryRaises(second) == IF second.kind = "ok" THEN Got(FALSE, Some(second.obj)) ELSE Got(TRUE, None)

\* lines 146-156: the second attempt on a new connection
HttpGetRetry(second) == IF second.kind = "ok" THEN Got(FALSE, Some(second.obj)) ELSE Got(FALSE, None)

\* http_get_json, lines 137-158
http_get_json(first, second) ==
  IF first.kind = "ok" THEN Got(FALSE, Some(first.obj))
  ELSE IF IsOSError(first.kind) THEN HttpGetRetry(second)
  ELSE Got(FALSE, None)

UP_KEYS == <<"interval_up_mbps", "up_mbps", "tx_mbps">>
DN_KEYS == <<"interval_dn_mbps", "down_mbps", "rx_mbps">>
SUM_KEYS == <<"interval_mbps", "sum_mbps", "bidir_mbps">>
UP_BYTES_KEYS == <<"interval_up_bytes", "up_bytes", "tx_bytes">>
DN_BYTES_KEYS == <<"interval_dn_bytes", "dn_bytes", "rx_bytes">>
\* the keys of a snapshot that contain 'jitter', and 'loss' or 'lost'
JITTER_KEYS == {"jitter_ms"}
LOSS_KEYS == {"loss_pct", "lost_packets"}

\* pick, lines 194-198: the value of the first key that is there
RECURSIVE pick(_, _, _)
pick(obj, keys, default) ==
  IF keys = <<>> THEN default
  ELSE IF Has(obj, Head(keys)) THEN _to_float(obj[Head(keys)], default)
  ELSE pick(obj, Tail(keys), default)

Max2(a, b) == IF a >= b THEN a ELSE b
UpDn(u, d) == [u |-> u, d |-> d]

\* lines 205-215
Attributed(u, d, s, mode_hint) ==
  IF s # 0 /\ u > 0 /\ d = 0 THEN UpDn(u, Max2(0, s - u))
  ELSE IF s # 0 /\ d > 0 /\ u = 0 THEN UpDn(Max2(0, s - d), d)
  ELSE IF u = 0 /\ d = 0 /\ s # 0
  THEN (IF mode_hint = Some(sDownOnly) THEN UpDn(0, s)
        ELSE IF mode_hint = Some(sUpOnly) THEN UpDn(s, 0)
        ELSE UpDn(0, s))
  ELSE UpDn(u, d)

\* lines 201-215: j = e.get('json') or {}, and the two values of the entry
SnapshotOf(e) == IF e.json = None THEN EmptyDict ELSE The(e.json)
EntryRates(j, mode_hint) ==
  Attributed(pick(j, UP_KEYS, PyInt(0)).n, pick(j, DN_KEYS, PyInt(0)).n, pick(j, SUM_KEYS, PyInt(0)).n, mode_hint)

\* max(cur or 0.0, v) when v is not None
MaxOr(cur, v) == IF v = PyNone THEN cur ELSE PyInt(Max2(IF cur = PyNone THEN 0 ELSE cur.n, v.n))
\* _deep_find_numbers on a snapshot without nested values: the values of
\* the matching keys that convert
Numbers(j, keys) == {_to_float(j[k], PyNone).n : k \in {x \in keys \cap DOMAIN j : _to_float(j[x], PyNone) # PyNone}}
SetMax(S) == CHOOSE x \in S : \A y \in S : y <= x
\* "for v in ...: cur = max(cur or 0.0, v)"
MaxOver(cur, j, keys) ==
  IF Numbers(j, keys) = {} THEN cur
  ELSE PyInt(Max2(IF cur = PyNone THEN 0 ELSE cur.n, SetMax(Numbers(j, keys))))

\* a reduction that keeps the largest value instead of the sum
PollEntryMax(acc, j, r) ==
  [up |-> Max2(acc.up, r.u), dn |-> Max2(acc.dn, r.d),
   ub |-> MaxOr(acc.ub, pick(j, UP_BYTES_KEYS, PyNone)),
   db |-> MaxOr(acc.db, pick(j, DN_BYTES_KEYS, PyNone)),
   jit |-> MaxOver(acc.jit, j, JITTER_KEYS),
   los |-> MaxOver(acc.los, j, LOSS_KEYS)]

\* lines 216-227: one round of the loop; r: the two values of the entry
PollEntry(acc, j, r) ==
  [up |-> acc.up + r.u, dn |-> acc.dn + r.d,
   ub |-> MaxOr(acc.ub, pick(j, UP_BYTES_KEYS, PyNone)),
   db |-> MaxOr(acc.db, pick(j, DN_BYTES_KEYS, PyNone)),
   jit |-> MaxOver(acc.jit, j, JITTER_KEYS),
   los |-> MaxOver(acc.los, j, LOSS_KEYS)]

\* lines 200-227
RECURSIVE PollLoop(_, _, _)
PollLoop(acc, metrics, mode_hint) ==
  IF metrics = <<>> THEN acc
  ELSE PollLoop(PollEntry(acc, SnapshotOf(Head(metrics)), EntryRates(SnapshotOf(Head(metrics)), mode_hint)),
                Tail(metrics), mode_hint)

\* lines 229-232: the scan of the whole object, which comes upon the
\* snapshots of the entries once more
RECURSIVE TopScan(_, _)
TopScan(acc, metrics) ==
  IF metrics = <<>> THEN acc
  ELSE TopScan([acc EXCEPT !.jit = MaxOver(@, SnapshotOf(Head(metrics)), JITTER_KEYS),
                           !.los = MaxOver(@, SnapshotOf(Head(metrics)), LOSS_KEYS)], Tail(metrics))

\* line 185, and lines 187-192
Unreached == [up |-> 0, dn |-> 0, ub |-> PyNone, db |-> PyNone, jit |-> PyNone, los |-> PyNone]

\* poll_metrics: [raised, up, dn, ub, db, jit, los]; got: what http_get_json
\* did
PollOf(got, mode_hint) ==
  IF got.raised THEN [raised |-> TRUE] @@ Unreached
  ELSE IF got.obj = None THEN [raised |-> FALSE] @@ Unreached
  ELSE [raised |-> FALSE] @@ TopScan(PollLoop(Unreached, The(got.obj).metrics, mode_hint), The(got.obj).metrics)
poll_metrics(first, second, mode_hint) == PollOf(http_get_json(first, second), mode_hint)

\* run_test, lines 117-134: the values of a row; polls: what each client's
\* poll_metrics returned; an exception counts as 0.0, 0.0
RowValue(p) == IF p.raised THEN UpDn(0, 0) ELSE UpDn(p.up, p.dn)
RECURSIVE RowTotals(_, _)
RowTotals(tot, polls) ==
  IF polls = <<>> THEN tot
  ELSE RowTotals(UpDn(tot.u + RowValue(Head(polls)).u, tot.d + RowValue(Head(polls)).d), Tail(polls))

(***************************************************************************)
(* SpecPoll: one round of the poll loop of run_test, over one or two       *)
(* clients whose agents answer /metrics, fail to, or are not reachable.    *)
(* fcall.args: [polls: for each client the outcomes of the two attempts of *)
(* its GET, mode_hint]; fcall.ret: [polls: what each poll_metrics did,     *)
(* total: the total_up and total_dn of the row].                           *)
(***************************************************************************)
Snap(u, d, s) == SetIf(SetIf(SetIf(EmptyDict, "interval_up_mbps", u), "interval_dn_mbps", d), "interval_mbps", s)
Snapshots ==
  {Snap(u, d, s) : u \in {None, Some(PyInt(0)), Some(PyInt(100))},
                   d \in {None, Some(PyInt(0)), Some(PyInt(20))},
                   s \in {None, Some(PyInt(50)), Some(PyInt(150))}}
\* snapshots with other keys and values: a sum under its second key, a
\* string, a null under the first key, byte counters, jitter and loss
sFifty == <<"5","0">>
OtherSnapshots ==
  {Snap(Some(PyInt(50)), Some(PyInt(20)), None),
   "sum_mbps" :> PyInt(500),
   ("up_mbps" :> PyStr(sFifty)) @@ ("down_mbps" :> PyInt(20)) @@ ("jitter_ms" :> PyInt(3)) @@ ("loss_pct" :> PyInt(1)),
   ("interval_up_mbps" :> PyNone) @@ ("up_mbps" :> PyInt(7)),
   ("interval_up_mbps" :> PyInt(100)) @@ ("interval_up_bytes" :> PyInt(1000)) @@ ("lost_packets" :> PyStr(sHost))}
Entry(j) == [json |-> Some(j)]
NoSnapshot == [json |-> None]
Entries == {NoSnapshot} \cup {Entry(j) : j \in Snapshots \cup OtherSnapshots}
PairEntries ==
  {NoSnapshot, Entry(Snap(Some(PyInt(100)), None, None)), Entry(Snap(Some(PyInt(50)), Some(PyInt(20)), None)),
   Entry(Snap(None, None, Some(PyInt(150)))),
   Entry(("up_mbps" :> PyStr(sFifty)) @@ ("down_mbps" :> PyInt(20)) @@ ("jitter_ms" :> PyInt(3)) @@ ("loss_pct" :> PyInt(1)))}
Metrics(m) == [metrics |-> m]
Objects == {Metrics(<<>>)} \cup {Metrics(<<e>>) : e \in Entries} \cup {Metrics(<<a, b>>) : a, b \in PairEntries}

Failures == {"status", "nonjson", "refused", "timeout", "protocol"}
\* the attempt was not made
NoFetch == Fetched("none", Metrics(<<>>))
Polled(first, second) == [first |-> first, second |-> second]
Seconds == {Fetched(k, Metrics(<<>>)) : k \in Failures} \cup {Fetched("ok", Metrics(<<e>>)) : e \in PairEntries}
PollInputs ==
  {Polled(Fetched("ok", o), NoFetch) : o \in Objects}
  \cup {Polled(Fetched(k, Metrics(<<>>)), NoFetch) : k \in {x \in Failures : ~IsOSError(x)}}
  \cup {Polled(Fetched(k, Metrics(<<>>)), s) : k \in {x \in Failures : IsOSError(x)}, s \in Seconds}
ClientPolls ==
  {Polled(Fetched("ok", Metrics(<<e>>)), NoFetch) : e \in PairEntries}
  \cup {Polled(Fetched("refused", Metrics(<<>>)), Fetched("refused", Metrics(<<>>)))}
Hints == {None, Some(sDownOnly), Some(sUpOnly)}

InitPoll ==
  /\ AgentIdle /\ NoRun /\ LOCK = 0 /\ _pool = <<>> /\ NoSvc
  /\ \E h \in Hints :
       \/ \E p \in PollInputs : fcall = [fn |-> "row", args |-> [polls |-> <<p>>, mode_hint |-> h], ret |-> None]
       \/ \E p, q \in ClientPolls : fcall = [fn |-> "row", args |-> [polls |-> <<p, q>>, mode_hint |-> h], ret |-> None]

PollsOf(args) == [i \in 1..Len(args.polls) |-> poll_metrics(args.polls[i].first, args.polls[i].second, args.mode_hint)]

\* run_test, lines 117-134: every client is polled and the totals are added up
PollRow ==
  /\ fcall.ret = None
  /\ fcall' = [fcall EXCEPT !.ret = Some([polls |-> PollsOf(fcall.args), total |-> RowTotals(UpDn(0, 0), PollsOf(fcall.args))])]
  /\ UNCHANGED <<agentVars, runVars, LOCK, _pool, svcVars>>

NextPoll == PollRow

SpecPoll == InitPoll /\ [][NextPoll]_vars

(***************************************************************************)
(* AgentService._normalize_task (lines 316-357) called on its own.         *)
(***************************************************************************)
\* characters for which str.isdigit() is true and which int() does not
\* accept: digits that are no decimal digits, such as SUPERSCRIPT TWO
OtherDigits == {"²"}
\* str.isdigit()
StrIsdigit(s) == s # <<>> /\ \A i \in 1..Len(s) : s[i] \in Range(DigitChars) \cup OtherDigits

\* lines 346-347: int(t['local_port']) raises ValueError for a string that
\* isdigit() accepts and that holds a digit int() does not accept
LocalPortRaises(t) ==
  Has(t, "local_port") /\ t["local_port"].ty = "str" /\ StrIsdigit(t["local_port"].s) /\ ~IsDigit(t["local_port"].s)

\* what a call does: [raised, task: the dict returned, data: the argument
\* after the call]; t = dict(data) is a copy, and data is left as it is
Normalized(data) ==
  [raised |-> LocalPortRaises(data),
   task |-> IF LocalPortRaises(data) THEN EmptyDict ELSE _normalize_task(data),
   data |-> data]

(***************************************************************************)
(* SpecNormalize: _normalize_task on task dicts that hold canonical keys,  *)
(* aliases, booleans written as strings, numbers written as strings and    *)
(* extra arguments.                                                        *)
(***************************************************************************)
sThirty == <<"3","0">>
With(S, k, vals) == S \cup {Put(t, k, v) : t \in S, v \in vals}
ProtoTasks == With(With({TaskFwd}, "protocol", {PyStr(sUdp)}), "proto", {PyStr(sTcp)})
DurationTasks ==
  With(With(With(ProtoTasks, "time", {PyInt(30), PyStr(sThirty)}), "seconds", {PyInt(5)}), "duration", {PyStr(sThirty)})
FlagTasks == With(DurationTasks, "reverse", {PyStr(sTrue), PyStr(<<"N","o">>), PyBool(TRUE), PyStr(<<"Y","E","S">>)})
PortTasks ==
  With(FlagTasks, "local_port", {PyStr(<<"5","0","0","1">>), PyStr(<<"²">>), PyStr(<<"x","1">>), PyInt(5001)})
\* the task of test 5c
AliasTask ==
  ("protocol" :> PyStr(sUdp)) @@ ("time" :> PyInt(30)) @@ ("P" :> PyInt(1)) @@ ("bandwidth" :> PyStr(<<"1","0","0","M">>))
  @@ ("len" :> PyStr(<<"1","4","0","0">>)) @@ ("bind_ip" :> PyStr(sHost)) @@ ("reverse" :> PyStr(sTrue))
  @@ ("bidir" :> PyStr(<<"f","a","l","s","e">>)) @@ ("extra_args" :> PyStr(<<"-","Z"," "," ","-","N">>))
NormTasks ==
  PortTasks
  \cup With({TaskFwd}, "extra_args", {PyStr(<<"-","Z"," "," ","-","N">>), PyList(<<PyStr(<<"-","Z">>)>>), PyInt(5)})
  \cup {AliasTask, EmptyDict,
        TaskFwd @@ ("pairs" :> PyStr(<<"2">>)) @@ ("threads" :> PyInt(4)),
        TaskFwd @@ ("bw" :> PyInt(10)) @@ ("bytes" :> PyInt(1400)) @@ ("bidir" :> PyStr(<<"o","n">>)),
        TaskFwd @@ ("tos" :> PyStr(<<" ","8">>)) @@ ("interval" :> PyInt(1))}

InitNormalize ==
  /\ AgentIdle /\ NoRun /\ LOCK = 0 /\ _pool = <<>> /\ NoSvc
  /\ \E data \in NormTasks : fcall = [fn |-> "_normalize_task", args |-> data, ret |-> None]

NormalizeTask ==
  /\ fcall.ret = None
  /\ fcall' = [fcall EXCEPT !.ret = Some(Normalized(fcall.args))]
  /\ UNCHANGED <<agentVars, runVars, LOCK, _pool, svcVars>>

NextNormalize == NormalizeTask

SpecNormalize == InitNormalize /\ [][NextNormalize]_vars

(***************************************************************************)
(* core.config_model: ClientConfig and TestConfig (lines 17-245).  An      *)
(* object is a record of its fields, each a Python value (clients: the     *)
(* list of ClientConfig records); a dict is a function of its keys.        *)
(***************************************************************************)
\* str(x), bool(x), int(x), float(x) of a value
ToStr(v) == PyStr(StrOf(v))
ToBool(v) == PyBool(Truthy(v))
ToInt(v) == PyInt(IntVal(v))
IfSet(v) == IF Truthy(v) THEN Some(v) ELSE None

\* lines 43-45 and 55-57: the entry written for parallel or omit: none for a
\* value that is falsy or blank, the integer for a string isdigit() accepts
\* (int() raises for a digit that is no decimal digit), else the stripped
\* string
Stripped(v) == StrStrip(StrOf(v))
NumberRaises(v) == Truthy(v) /\ StrIsdigit(Stripped(v)) /\ ~IsDigit(Stripped(v))
NumberEntry(v) ==
  IF ~Truthy(v) \/ Stripped(v) = <<>> \/ NumberRaises(v) THEN None
  ELSE IF IsDigit(Stripped(v)) THEN Some(PyInt(DigitsVal(Stripped(v))))
  ELSE Some(PyStr(Stripped(v)))

\* ClientConfig.to_dict, lines 36-64
ClientToDict(c) ==
  SetIf(SetIf(SetIf(SetIf(SetIf(SetIf(SetIf(SetIf(SetIf(SetIf(SetIf(
    ("name" :> c.name) @@ ("agent" :> c.agent) @@ ("target" :> c.target),
    "bind", IfSet(c.bind)),
    "proto", IF Truthy(c.proto) THEN Some(PyStr(StrLower(c.proto.s))) ELSE None),
    "parallel", NumberEntry(c.parallel)),
    "reverse", IF Truthy(c.reverse) THEN Some(PyBool(TRUE)) ELSE None),
    "bidir", IF Truthy(c.bidir) THEN Some(PyBool(TRUE)) ELSE None),
    "bitrate", IfSet(c.bitrate)),
    "interval", IfSet(c.interval)),
    "omit", NumberEntry(c.omit)),
    "length", IfSet(c.length)),
    "window", IfSet(c.window)),
    "extra_args", IfSet(c.extra_args))
ClientToDictRaises(c) == NumberRaises(c.parallel) \/ NumberRaises(c.omit)

\* ClientConfig.from_dict, lines 66-84
ClientFromDict(d) ==
  [name |-> ToStr(Get(d, "name", PyStr(<<>>))), agent |-> ToStr(Get(d, "agent", PyStr(<<>>))),
   target |-> ToStr(Get(d, "target", PyStr(<<>>))), bind |-> ToStr(Get(d, "bind", PyStr(<<>>))),
   proto |-> ToStr(Get(d, "proto", PyStr(<<>>))), parallel |-> Get(d, "parallel", PyStr(<<>>)),
   reverse |-> ToBool(Get(d, "reverse", PyBool(FALSE))), bidir |-> ToBool(Get(d, "bidir", PyBool(FALSE))),
   bitrate |-> ToStr(Get(d, "bitrate", PyStr(<<>>))), interval |-> ToStr(Get(d, "interval", PyStr(<<>>))),
   omit |-> Get(d, "omit", PyStr(<<>>)), length |-> ToStr(Get(d, "length", PyStr(<<>>))),
   window |-> ToStr(Get(d, "window", PyStr(<<>>))), extra_args |-> Get(d, "extra_args", PyList(<<>>))]

\* TestConfig.to_dict, lines 109-134
ServerToDict(c) == SetIf(SetIf("agent" :> c.server_agent, "api_key", IfSet(c.api_key)), "bind", IfSet(c.server_bind))
ToDict(c) ==
  SetIf(SetIf(SetIf(SetIf(
    ("mode" :> c.mode) @@ ("duration_sec" :> c.duration_sec) @@ ("poll_interval_sec" :> c.poll_interval_sec)
    @@ ("base_port" :> c.base_port) @@ ("parallel" :> c.parallel) @@ ("proto" :> c.proto) @@ ("omit" :> c.omit)
    @@ ("keep_servers_open" :> c.keep_servers_open) @@ ("server" :> ServerToDict(c))
    @@ ("clients" :> [i \in 1..Len(c.clients) |-> ClientToDict(c.clients[i])]),
    "api_key", IfSet(c.api_key)),
    "bitrate", IfSet(c.bitrate)),
    "length", IfSet(c.length)),
    "tcp_window", IfSet(c.tcp_window))
ToDictRaises(c) == \E i \in 1..Len(c.clients) : ClientToDictRaises(c.clients[i])

\* TestConfig.from_dict, lines 136-157, for a dict whose numbers are numbers
FromDict(d) ==
  [server_agent |-> Get(Get(d, "server", EmptyDict), "agent", PyStr(<<>>)),
   server_bind |-> ToStr(Get(Get(d, "server", EmptyDict), "bind", PyStr(<<>>))),
   api_key |-> ToStr(IF Truthy(Get(d, "api_key", PyNone)) THEN d["api_key"]
                   ELSE Get(Get(d, "server", EmptyDict), "api_key", PyStr(<<>>))),
   keep_servers_open |-> ToBool(Get(d, "keep_servers_open", PyBool(TRUE))),
   mode |-> Get(d, "mode", PyStr(sBidir)),
   duration_sec |-> ToInt(Get(d, "duration_sec", PyInt(30))),
   base_port |-> ToInt(Get(d, "base_port", PyInt(5211))),
   proto |-> Get(d, "proto", PyStr(sTcp)),
   parallel |-> ToInt(Get(d, "parallel", PyInt(1))),
   omit |-> ToInt(Get(d, "omit", PyInt(0))),
   bitrate |-> ToStr(Get(d, "bitrate", PyStr(<<>>))),
   length |-> ToStr(Get(d, "length", PyStr(<<>>))),
   tcp_window |-> ToStr(Get(d, "tcp_window", PyStr(<<>>))),
   poll_interval_sec |-> ToInt(Get(d, "poll_interval_sec", PyInt(1))),
   clients |-> [i \in 1..Len(Get(d, "clients", <<>>)) |-> ClientFromDict(d["clients"][i])]]

(***************************************************************************)
(* TestConfig.validate, lines 184-245.  An error is the string appended.   *)
(***************************************************************************)
RECURSIVE Join(_)
Join(s) == IF s = <<>> THEN "" ELSE Head(s) \o Join(Tail(s))
Text(v) == Join(StrOf(v))
StartsWith(s, w) == Len(s) >= Len(w) /\ SubSeq(s, 1, Len(w)) = w

\* lines 189-192
ServerErrors(c) ==
  IF ~Truthy(c.server_agent) \/ Text(c.server_agent) = "http://A-IP:9001"
  THEN <<"Server (A) URL is not configured.">>
  ELSE IF ~StartsWith(Text(c.server_agent), "http://")
  THEN <<"Server URL must start with http:// - got \"" \o Text(c.server_agent) \o "\"">>
  ELSE <<>>

\* line 199: c.name or f'#{i}', i counted from 0
Label(c, i) == IF Truthy(c.name) THEN Text(c.name) ELSE "#" \o Text(PyInt(i - 1))

\* line 206
EffectiveProto(c, top) ==
  StrLower(IF Truthy(c.proto) THEN c.proto.s ELSE IF Truthy(top.proto) THEN top.proto.s ELSE sTcp)

\* lines 207-212
UdpErrors(c, i, top) ==
  IF EffectiveProto(c, top) # sUdp THEN <<>>
  ELSE (IF Truthy(c.bidir) THEN <<"Client \"" \o Label(c, i) \o "\": UDP cannot use --bidir.">> ELSE <<>>)
       \o (IF Truthy(c.parallel) /\ IsDigit(Stripped(c.parallel)) /\ IntVal(c.parallel) > 1
           THEN <<"Client \"" \o Label(c, i) \o "\": UDP cannot use -P > 1.">> ELSE <<>>)
\* line 211: int(par) raises for a string isdigit() accepts and int() does not
UdpRaises(c, top) == EffectiveProto(c, top) = sUdp /\ NumberRaises(c.parallel)

\* lines 199-212
ClientErrors(c, i, top) ==
  (IF ~Truthy(c.agent) \/ Text(c.agent) = "http://B:9001"
   THEN <<"Client \"" \o Label(c, i) \o "\" has no agent URL.">> ELSE <<>>)
  \o (IF ~Truthy(c.target) THEN <<"Client \"" \o Label(c, i) \o "\" has no target IP.">> ELSE <<>>)
  \o UdpErrors(c, i, top)

RECURSIVE AllClientErrors(_, _)
AllClientErrors(top, i) ==
  IF i > Len(top.clients) THEN <<>>
  ELSE ClientErrors(top.clients[i], i, top) \o AllClientErrors(top, i + 1)

\* lines 215-220
PortErrors(c) ==
  IF Len(c.clients) = 0 THEN <<>>
  ELSE (IF c.base_port.n < 1024 THEN <<"Base port " \o Text(c.base_port) \o " is below 1024 (reserved).">> ELSE <<>>)
       \o (IF c.base_port.n + Len(c.clients) - 1 > 65535
           THEN <<"Base port " \o Text(c.base_port) \o " + " \o Text(PyInt(Len(c.clients))) \o " clients exceeds 65535.">>
           ELSE <<>>)

\* lines 223-230
RangeErrors(c) ==
  (IF c.duration_sec.n <= 0 THEN <<"Duration must be > 0 (got " \o Text(c.duration_sec) \o ").">> ELSE <<>>)
  \o (IF c.poll_interval_sec.n <= 0 THEN <<"poll_interval_sec must be > 0 (got " \o Text(c.poll_interval_sec) \o ").">> ELSE <<>>)
  \o (IF c.parallel.n <= 0 THEN <<"Parallel must be > 0 (got " \o Text(c.parallel) \o ").">> ELSE <<>>)
  \o (IF c.omit.n < 0 THEN <<"Omit must be >= 0 (got " \o Text(c.omit) \o ").">> ELSE <<>>)

\* lines 180 and 233-235
VALID_MODES == {"bidir", "up_only", "down_only", "dual", "two_phase"}
ModeErrors(c) ==
  IF Text(c.mode) \in VALID_MODES THEN <<>>
  ELSE <<"Invalid mode \"" \o Text(c.mode) \o "\". Must be one of ('bidir', 'up_only', 'down_only', 'dual', 'two_phase').">>

\* lines 181-182: ^\d+(\.\d+)?[kKmMgG]?$ and ^\d+[kKmMgG]?$; $ also matches
\* before a newline that ends the string
Chomp(s) == IF s # <<>> /\ s[Len(s)] = "\n" THEN SubSeq(s, 1, Len(s) - 1) ELSE s
Unsuffixed(s) == IF s # <<>> /\ s[Len(s)] \in {"k", "K", "m", "M", "g", "G"} THEN SubSeq(s, 1, Len(s) - 1) ELSE s
IsDecimal(s) ==
  IsDigit(s) \/ \E i \in 2..(Len(s) - 1) : (s[i] = "." /\ IsDigit(SubSeq(s, 1, i - 1)) /\ IsDigit(SubSeq(s, i + 1, Len(s))))
\* lines 238-243
FormatErrors(c) ==
  (IF Truthy(c.bitrate) /\ ~IsDecimal(Unsuffixed(Chomp(c.bitrate.s)))
   THEN <<"Invalid bitrate format: \"" \o Text(c.bitrate) \o "\" (expected e.g. \"100M\", \"1G\", \"500k\").">> ELSE <<>>)
  \o (IF Truthy(c.length) /\ ~IsDigit(Unsuffixed(Chomp(c.length.s)))
      THEN <<"Invalid length format: \"" \o Text(c.length) \o "\" (expected e.g. \"128K\", \"1M\").">> ELSE <<>>)

\* validate: [raised, errors]
Validate(c) ==
  IF \E i \in 1..Len(c.clients) : UdpRaises(c.clients[i], c) THEN [raised |-> TRUE, errors |-> <<>>]
  ELSE [raised |-> FALSE,
        errors |-> ServerErrors(c)
                   \o (IF Len(c.clients) = 0 THEN <<"At least one client must be configured.">> ELSE <<>>)
                   \o AllClientErrors(c, 1) \o PortErrors(c) \o RangeErrors(c) \o ModeErrors(c) \o FormatErrors(c)]

(***************************************************************************)
(* The configurations saved, loaded and validated.                         *)
(***************************************************************************)
sHttpS == <<"h","t","t","p",":","/","/","s">>
sHttpB == <<"h","t","t","p",":","/","/","b">>
sTarget == <<"1","0",".","0",".","0",".","1">>
sUDP == <<"U","D","P">>
sHundredM == <<"1","0","0","M">>
sFast == <<"f","a","s","t">>
NoStr == PyStr(<<>>)

ClientConfig(name, proto, parallel, omit, reverse, bidir) ==
  [name |-> PyStr(name), agent |-> PyStr(sHttpB), target |-> PyStr(sTarget), bind |-> NoStr,
   proto |-> PyStr(proto), parallel |-> parallel, reverse |-> PyBool(reverse), bidir |-> PyBool(bidir),
   bitrate |-> NoStr, interval |-> NoStr, omit |-> omit, length |-> NoStr, window |-> NoStr,
   extra_args |-> PyList(<<>>)]

ClientConfigs ==
  {ClientConfig(<<"c">>, <<>>, NoStr, NoStr, FALSE, FALSE),
   ClientConfig(<<"c">>, <<>>, NoStr, NoStr, TRUE, FALSE),
   ClientConfig(<<"c">>, <<>>, NoStr, NoStr, FALSE, TRUE),
   ClientConfig(<<>>, sTcp, NoStr, NoStr, FALSE, TRUE),
   ClientConfig(<<"c">>, sUdp, NoStr, NoStr, FALSE, TRUE),
   ClientConfig(<<"c">>, sUDP, PyInt(2), NoStr, FALSE, FALSE),
   ClientConfig(<<"c">>, <<>>, PyStr(<<"4">>), PyInt(1), FALSE, FALSE),
   ClientConfig(<<"c">>, <<>>, PyStr(<<"0">>), NoStr, FALSE, FALSE),
   ClientConfig(<<"c">>, <<>>, NoStr, PyStr(<<"0">>), FALSE, FALSE),
   ClientConfig(<<"c">>, <<>>, PyStr(<<"²">>), NoStr, FALSE, TRUE)}

ClientLists ==
  {<<>>} \cup {<<c>> : c \in ClientConfigs}
  \cup {<<ClientConfig(<<"c">>, <<>>, NoStr, NoStr, FALSE, FALSE), c>> : c \in ClientConfigs}

TestConfig(server, proto, mode, duration, base_port, bitrate, clients) ==
  [server_agent |-> PyStr(server), server_bind |-> NoStr, api_key |-> NoStr,
   keep_servers_open |-> PyBool(TRUE), mode |-> PyStr(mode), duration_sec |-> PyInt(duration),
   base_port |-> PyInt(base_port), proto |-> PyStr(proto), parallel |-> PyInt(1), omit |-> PyInt(0),
   bitrate |-> PyStr(bitrate), length |-> NoStr, tcp_window |-> NoStr, poll_interval_sec |-> PyInt(1),
   clients |-> clients]

TestConfigs ==
  {TestConfig(sHttpS, p, sBidir, 30, 5211, <<>>, cl) : p \in {sTcp, sUdp}, cl \in ClientLists}
  \cup {TestConfig(s, sTcp, m, d, b, r, <<ClientConfig(<<"c">>, <<>>, NoStr, NoStr, FALSE, FALSE)>>) :
          s \in {sHttpS, <<>>, sSrv}, m \in {sBidir, sFast}, d \in {30, 0}, b \in {5211, 80},
          r \in {sHundredM, sFast}}

\* what a call returns: the dict saved, the object loaded from it, the dict
\* saved again; or the errors of validate
Saved(raised, d1, c2, d2) == [raised |-> raised, d1 |-> d1, c2 |-> c2, d2 |-> d2, errors |-> <<>>]
Validated(v) == [raised |-> v.raised, d1 |-> EmptyDict, c2 |-> EmptyDict, d2 |-> EmptyDict, errors |-> v.errors]

InitConfig ==
  /\ \E fn \in {"to_dict", "validate"}, c \in TestConfigs : fcall = [fn |-> fn, args |-> c, ret |-> None]
  /\ AgentIdle /\ NoRun /\ LOCK = 0 /\ _pool = <<>> /\ NoSvc

\* save, load, save again: to_dict, from_dict, to_dict
SaveLoadSave ==
  /\ fcall.fn = "to_dict" /\ fcall.ret = None
  /\ fcall' = [fcall EXCEPT !.ret =
       Some(IF ToDictRaises(fcall.args) THEN Saved(TRUE, EmptyDict, EmptyDict, EmptyDict)
            ELSE Saved(FALSE, ToDict(fcall.args), FromDict(ToDict(fcall.args)),
                       ToDict(FromDict(ToDict(fcall.args)))))]
  /\ UNCHANGED <<agentVars, runVars, LOCK, _pool, svcVars>>

ValidateConfig ==
  /\ fcall.fn = "validate" /\ fcall.ret = None
  /\ fcall' = [fcall EXCEPT !.ret = Some(Validated(Validate(fcall.args)))]
  /\ UNCHANGED <<agentVars, runVars, LOCK, _pool, svcVars>>

NextConfig == SaveLoadSave \/ ValidateConfig
SpecConfig == InitConfig /\ [][NextConfig]_vars

(***************************************************************************)
(* The sections under AgentService.LOCK step by step.  A handler thread    *)
(* that has read its request waits at "acquire" until LOCK is free.  The   *)
(* loops of /server/start, /server/stop and /client/stop run inside one    *)
(* "with outer.LOCK" block: the thread keeps LOCK from the first item to   *)
(* the last, through time.sleep(0.15) of _start_server_port ("ss_sleep")   *)
(* and p.wait(timeout=2) of _stop_proc ("stop_wait").  loc[t].acc holds    *)
(* the local variables of the loop.                                        *)
(***************************************************************************)
\* the handler was entered: the request passed the token and length checks
Receive(t, r) ==
  /\ Accepts(t)
  /\ pc' = [pc EXCEPT ![t] = "acquire"]
  /\ req' = [req EXCEPT ![t] = r]
  /\ last' = NoSent
  /\ UNCHANGED <<otherVars, runVars, cfgVars, httpd, mainPc, SERVER_PROCS, CLIENT_PROCS, bulk, procs, heap,
                 reader, now, loc, view>>

\* do_GET, lines 650-665 and 677-685: LOCK is taken, the registries are read
\* and LOCK is released
LockedGet(t) ==
  /\ pc[t] = "acquire" /\ LOCK = 0 /\ req[t].method = "GET"
  /\ SERVER_PROCS' = IF req[t].path = "/status" THEN GcServers(SERVER_PROCS, procs) ELSE SERVER_PROCS
  /\ \E snap \in {SnapOf(CLIENT_PROCS, req[t].path = "/metrics")} :
       /\ loc' = [loc EXCEPT ![t] = Collected(req[t].path, SERVER_PROCS', snap)]
       /\ view' = [view EXCEPT ![t] = Rendered(snap, heap)]
  /\ pc' = [pc EXCEPT ![t] = "dump"]
  /\ last' = NoSent
  /\ procs' = Reap(procs, SERVER_PROCS', CLIENT_PROCS, reader, loc')
  /\ UNCHANGED <<otherVars, runVars, cfgVars, httpd, mainPc, CLIENT_PROCS, bulk, heap, reader, now, req>>

\* /server/start, lines 713-716: LOCK is taken and the dead entries removed
ServerStartEnter(t) ==
  /\ pc[t] = "acquire" /\ LOCK = 0 /\ req[t].path = "/server/start"
  /\ IterOk(Get(req[t].body, "ports", DefaultPorts))
  /\ LOCK' = t
  /\ SERVER_PROCS' = GcServers(SERVER_PROCS, procs)
  /\ loc' = [loc EXCEPT ![t] = [NoLocals EXCEPT !.acc =
               [rest |-> IterOf(Get(req[t].body, "ports", DefaultPorts)),
                started |-> <<>>, already |-> <<>>, errors |-> EmptyDict]]]
  /\ pc' = [pc EXCEPT ![t] = "ss_loop"]
  /\ last' = NoSent
  /\ procs' = Reap(procs, SERVER_PROCS', CLIENT_PROCS, reader, loc')
  /\ UNCHANGED <<svcVars, fcall, _pool, runVars, cfgVars, httpd, mainPc, CLIENT_PROCS, bulk, heap, reader, now, req, view>>

\* lines 718-727: the item reaches _start_server_port
Spawns(v, S) == IntKind(v) = "ok" /\ ~Has(S, IntVal(v)) /\ Cardinality(DOMAIN S) < MAX_SERVERS

\* the loop variables after an item that starts no process
Passed(acc) ==
  [rest |-> acc.rest, started |-> acc.started, already |-> acc.already, errors |-> acc.errors]
WithRegistry(acc, S, P) ==
  [rest |-> Tail(acc.rest), S |-> S, P |-> P, started |-> acc.started, already |-> acc.already,
   errors |-> acc.errors]

\* lines 717-729 and 211-217: the next item of ports; Popen of
\* _start_server_port returns the new process, or raises
ServerStartNext(t, popen_ok) ==
  /\ pc[t] = "ss_loop" /\ LOCK = t /\ loc[t].acc.rest # <<>>
  /\ IF Spawns(Head(loc[t].acc.rest), SERVER_PROCS) /\ popen_ok
     THEN /\ Cardinality({x \in DOMAIN procs : x[1] = "s"}) < MaxSpawn
          /\ \E pid \in {NewPid(procs, "s", IntVal(Head(loc[t].acc.rest)))} :
               /\ procs' = Put(procs, pid, NewProc)
               /\ loc' = [loc EXCEPT ![t].proc = pid]
          /\ pc' = [pc EXCEPT ![t] = "ss_sleep"]
     ELSE /\ loc' = [loc EXCEPT ![t].acc =
                       Passed(StartItem(WithRegistry(@, SERVER_PROCS, procs), Head(@.rest),
                                        [popen_ok |-> FALSE, early |-> {}]))]
          /\ UNCHANGED <<procs, pc>>
  /\ last' = NoSent
  /\ UNCHANGED <<otherVars, runVars, cfgVars, httpd, mainPc, SERVER_PROCS, CLIENT_PROCS, bulk, heap, reader, now,
                 req, view>>

\* lines 234-240 and 730-733: after time.sleep(0.15) the process is polled
\* and registered, or "exited immediately" is recorded
ServerStartWake(t) ==
  /\ pc[t] = "ss_sleep" /\ LOCK = t
  /\ \E port \in {IntVal(Head(loc[t].acc.rest))} :
       IF Alive(procs, loc[t].proc)
       THEN /\ SERVER_PROCS' = Put(SERVER_PROCS, port, loc[t].proc)
            /\ loc' = [loc EXCEPT ![t].proc = NoPid, ![t].acc.rest = Tail(@),
                                  ![t].acc.started = Append(@, port)]
       ELSE /\ loc' = [loc EXCEPT ![t].proc = NoPid, ![t].acc.rest = Tail(@),
                                  ![t].acc.errors = Put(@, StrOf(PyInt(port)), "exited_immediately")]
            /\ UNCHANGED SERVER_PROCS
  /\ pc' = [pc EXCEPT ![t] = "ss_loop"]
  /\ procs' = Reap(procs, SERVER_PROCS', CLIENT_PROCS, reader, loc')
  /\ last' = NoSent
  /\ UNCHANGED <<otherVars, runVars, cfgVars, httpd, mainPc, CLIENT_PROCS, bulk, heap, reader, now, req, view>>

\* lines 713 and 736: the with block ends, the response is written
ServerStartLeave(t) ==
  /\ pc[t] = "ss_loop" /\ LOCK = t /\ loc[t].acc.rest = <<>>
  /\ LOCK' = 0
  /\ last' = Sent(t, req[t], 200, "",
                  [started |-> loc[t].acc.started, already_running |-> loc[t].acc.already,
                   errors |-> loc[t].acc.errors], EmptyDict)
  /\ pc' = [pc EXCEPT ![t] = "idle"]
  /\ req' = [req EXCEPT ![t] = NoReq]
  /\ loc' = [loc EXCEPT ![t] = NoLocals]
  /\ UNCHANGED <<svcVars, fcall, _pool, runVars, cfgVars, httpd, mainPc, SERVER_PROCS, CLIENT_PROCS, bulk, procs, heap,
                 reader, now, view>>

StopPaths == {"server/stop", "/server/stop", "/client/stop"}
\* lines 749-750 and 772: the entries the loop goes through
StopList(r, S, C) == IF r.path = "/client/stop" THEN DOMAIN C ELSE Selected(S, ToStop(r.body))
StopTarget(r, S, C, k) == IF r.path = "/client/stop" THEN C[k].proc ELSE S[k]

\* /server/stop line 748, /client/stop line 771: LOCK is taken
StopEnter(t) ==
  /\ pc[t] = "acquire" /\ LOCK = 0 /\ req[t].path \in StopPaths
  /\ LOCK' = t
  /\ loc' = [loc EXCEPT ![t] = [NoLocals EXCEPT !.acc =
               [rest |-> StopList(req[t], SERVER_PROCS, CLIENT_PROCS), stopped |-> {}]]]
  /\ pc' = [pc EXCEPT ![t] = "stop_loop"]
  /\ last' = NoSent
  /\ UNCHANGED <<svcVars, fcall, _pool, runVars, cfgVars, httpd, mainPc, SERVER_PROCS, CLIENT_PROCS, bulk, procs, heap,
                 reader, now, req, view>>

\* lines 751 / 773 and 244-246: _stop_proc is called for the next entry;
\* after p.terminate() the thread is in p.wait(timeout=2)
StopTerminate(t) ==
  /\ pc[t] = "stop_loop" /\ LOCK = t /\ loc[t].acc.rest # {}
  /\ \E k \in {CHOOSE x \in loc[t].acc.rest : TRUE} :
       loc' = [loc EXCEPT ![t].key = k, ![t].proc = StopTarget(req[t], SERVER_PROCS, CLIENT_PROCS, k)]
  /\ pc' = [pc EXCEPT ![t] = "stop_wait"]
  /\ last' = NoSent
  /\ UNCHANGED <<otherVars, runVars, cfgVars, httpd, mainPc, SERVER_PROCS, CLIENT_PROCS, bulk, procs, heap,
                 reader, now, req, view>>

\* lines 246-251 and 752-753 / 774-775: wait returns, or its timeout ends
\* and the process is killed; the entry is removed
StopWaited(t) ==
  /\ pc[t] = "stop_wait" /\ LOCK = t
  /\ IF req[t].path = "/client/stop"
     THEN CLIENT_PROCS' = Pop(CLIENT_PROCS, loc[t].key) /\ UNCHANGED SERVER_PROCS
     ELSE SERVER_PROCS' = Pop(SERVER_PROCS, loc[t].key) /\ UNCHANGED CLIENT_PROCS
  /\ loc' = [loc EXCEPT ![t].key = <<>>, ![t].proc = NoPid, ![t].acc.rest = @ \ {loc[t].key},
                        ![t].acc.stopped = @ \cup {loc[t].key}]
  /\ pc' = [pc EXCEPT ![t] = "stop_loop"]
  /\ procs' = Reap(_stop_proc(procs, loc[t].proc), SERVER_PROCS', CLIENT_PROCS', reader, loc')
  /\ heap' = HeapReap(heap, CLIENT_PROCS', loc')
  /\ last' = NoSent
  /\ UNCHANGED <<otherVars, runVars, cfgVars, httpd, mainPc, bulk, reader, now, req, view>>

\* lines 754 / 776: the with block ends, the response is written
StopLeave(t) ==
  /\ pc[t] = "stop_loop" /\ LOCK = t /\ loc[t].acc.rest = {}
  /\ LOCK' = 0
  /\ last' = Sent(t, req[t], 200, "",
                  IF req[t].path = "/client/stop"
                  THEN [stopped_clients |-> Cardinality(loc[t].acc.stopped)]
                  ELSE [stopped |-> loc[t].acc.stopped], EmptyDict)
  /\ pc' = [pc EXCEPT ![t] = "idle"]
  /\ req' = [req EXCEPT ![t] = NoReq]
  /\ loc' = [loc EXCEPT ![t] = NoLocals]
  /\ UNCHANGED <<svcVars, fcall, _pool, runVars, cfgVars, httpd, mainPc, SERVER_PROCS, CLIENT_PROCS, bulk, procs, heap,
                 reader, now, view>>

(***************************************************************************)
(* SpecLock: an agent with one server and one client, requests of every    *)
(* kind that takes LOCK, processes that exit.                              *)
(***************************************************************************)
InitLock ==
  /\ NoRun /\ NoOther
  /\ api_token = <<>> /\ autostart_ports = <<>>
  /\ httpd = TRUE /\ mainPc = "running"
  /\ SERVER_PROCS = (1 :> <<"s", 1, 1>>)
  /\ CLIENT_PROCS = (ClientKey(WithProto(TaskFwd), 0) :> NewInfo(<<"c", 0, 1>>, WithProto(TaskFwd)))
  /\ bulk = 0
  /\ procs = (<<"s", 1, 1>> :> NewProc) @@ (<<"c", 0, 1>> :> NewProc)
  /\ reader = (<<"c", 0, 1>> :> [key |-> ClientKey(WithProto(TaskFwd), 0)])
  /\ heap = EmptyDict
  /\ now = 0
  /\ IdleThreads

LockReqs ==
  {GetReq("/status"), GetReq("/metrics"), Post("/server/start", PortsBody(<<PyInt(1), PyInt(2)>>)),
   Post("/server/stop", EmptyDict), Post("/client/stop", EmptyDict)}

NextLock ==
  \/ \E t \in Threads, r \in LockReqs : Receive(t, r)
  \/ \E t \in Threads : LockedGet(t)
  \/ \E t \in Threads : SendJson(t)
  \/ \E t \in Threads : ServerStartEnter(t)
  \/ \E t \in Threads, ok \in BOOLEAN : ServerStartNext(t, ok)
  \/ \E t \in Threads : ServerStartWake(t)
  \/ \E t \in Threads : ServerStartLeave(t)
  \/ \E t \in Threads : StopEnter(t)
  \/ \E t \in Threads : StopTerminate(t)
  \/ \E t \in Threads : StopWaited(t)
  \/ \E t \in Threads : StopLeave(t)
  \/ \E pid \in DOMAIN reader : (LOCK = 0 /\ ReaderExit(pid, NoLine))
  \/ \E pid \in DOMAIN procs : ProcExit(pid)

SpecLock == InitLock /\ [][NextLock]_vars

(***************************************************************************)
(* core.net_utils: _ConnPool and http_get_json (lines 25-67, 126-158),     *)
(* call by call, for the threads of the controller that poll in parallel.  *)
(* _pool.conns: "host:port" -> HTTPConnection object; _pool.objs: the      *)
(* objects, each with the state of http.client (Idle or Request-sent) and  *)
(* resp, the thread whose response is not read to the end (0: none).       *)
(* run[th]: the call of thread th: [pc, key, conn, attempt, ret].          *)
(***************************************************************************)
Callers == 1..NumThreads
NoCall == [pc |-> "idle", key |-> "", conn |-> 0, attempt |-> 0, ret |-> ""]
NewConn == [state |-> "Idle", resp |-> 0]

\* objects still referenced by the pool or by a call
ConnRefs(conns, R) == {conns[k] : k \in DOMAIN conns} \cup {R[th].conn : th \in Callers}
Live(objs, conns, R) == [c \in (DOMAIN objs) \cap ConnRefs(conns, R) |-> objs[c]]

\* _ConnPool.remove, lines 53-61: the object cached for the key now is
\* taken out and closed, whoever made it or uses it
Closed(objs, conns, key) == IF Has(conns, key) THEN [objs EXCEPT ![conns[key]] = NewConn] ELSE objs
Removed(conns, key) == IF Has(conns, key) THEN Pop(conns, key) ELSE conns

\* http_get_json is entered for the agent at key
HttpGet(th, key) ==
  /\ run[th].pc = "idle"
  /\ run' = [run EXCEPT ![th] = [pc |-> "get", key |-> key, conn |-> 0, attempt |-> 1, ret |-> ""]]
  /\ UNCHANGED <<agentVars, cfg, stop_event, clock, trace, svcVars, fcall, LOCK, _pool>>

\* _ConnPool.get, lines 35-43: the lookup under _lock; a cached object is
\* returned to whoever asks
PoolLookup(th) ==
  /\ run[th].pc = "get"
  /\ run' = [run EXCEPT ![th] = IF Has(_pool.conns, @.key)
                                THEN [@ EXCEPT !.pc = "request", !.conn = _pool.conns[run[th].key]]
                                ELSE [@ EXCEPT !.pc = "create"]]
  /\ UNCHANGED <<agentVars, cfg, stop_event, clock, trace, svcVars, fcall, LOCK, _pool>>

\* lines 44-47: a new object is made and cached
PoolCreate(th) ==
  /\ run[th].pc = "create"
  /\ \E c \in {MinOf({n \in 1..(Cardinality(DOMAIN _pool.objs) + 1) : n \notin DOMAIN _pool.objs})} :
       /\ run' = [run EXCEPT ![th] = [@ EXCEPT !.pc = "request", !.conn = c]]
       /\ _pool' = [conns |-> Put(_pool.conns, run[th].key, c),
                    objs |-> Live(Put(_pool.objs, c, NewConn), Put(_pool.conns, run[th].key, c), run')]
  /\ UNCHANGED <<agentVars, cfg, stop_event, clock, trace, svcVars, fcall, LOCK>>

\* lines 145-158: an OSError of the first attempt removes the cached object
\* and tries again; any other exception returns None; an exception of the
\* second attempt removes the cached object and returns None
Raised(th, oserror) ==
  IF run[th].attempt = 1 /\ ~oserror
  THEN /\ run' = [run EXCEPT ![th] = [NoCall EXCEPT !.ret = "None"]]
       /\ _pool' = [_pool EXCEPT !.objs = Live(@, _pool.conns, run')]
  ELSE /\ run' = [run EXCEPT ![th] = IF @.attempt = 1
                                     THEN [@ EXCEPT !.pc = "get", !.conn = 0, !.attempt = 2]
                                     ELSE [NoCall EXCEPT !.ret = "None"]]
       /\ _pool' = [conns |-> Removed(_pool.conns, run[th].key),
                    objs |-> Live(Closed(_pool.objs, _pool.conns, run[th].key),
                                  Removed(_pool.conns, run[th].key), run')]

\* conn.request, lines 139 and 149: http.client raises CannotSendRequest
\* unless the object is Idle; the connection may fail (OSError)
ConnRequest(th, ok) ==
  /\ run[th].pc = "request"
  /\ IF _pool.objs[run[th].conn].state # "Idle" THEN Raised(th, FALSE)
     ELSE IF ~ok THEN Raised(th, TRUE)
     ELSE /\ _pool' = [_pool EXCEPT !.objs[run[th].conn].state = "Request-sent"]
          /\ run' = [run EXCEPT ![th].pc = "response"]
  /\ UNCHANGED <<agentVars, cfg, stop_event, clock, trace, svcVars, fcall, LOCK>>

\* conn.getresponse, lines 140 and 150: http.client raises ResponseNotReady
\* unless the object is Request-sent with no response left open; the status
\* line may fail to arrive (OSError)
ConnGetResponse(th, ok) ==
  /\ run[th].pc = "response"
  /\ IF _pool.objs[run[th].conn].state # "Request-sent" \/ _pool.objs[run[th].conn].resp # 0
     THEN Raised(th, FALSE)
     ELSE IF ~ok THEN Raised(th, TRUE)
     ELSE /\ _pool' = [_pool EXCEPT !.objs[run[th].conn] = [state |-> "Idle", resp |-> th]]
          /\ run' = [run EXCEPT ![th].pc = "read"]
  /\ UNCHANGED <<agentVars, cfg, stop_event, clock, trace, svcVars, fcall, LOCK>>

\* resp.read and the return, lines 141-144 and 151-153: the body is read and
\* the response closed; a response that remove() closed meanwhile fails
RespRead(th, status_ok) ==
  /\ run[th].pc = "read"
  /\ IF _pool.objs[run[th].conn].resp # th THEN Raised(th, FALSE)
     ELSE /\ run' = [run EXCEPT ![th] = [NoCall EXCEPT !.ret = IF status_ok THEN "json" ELSE "None"]]
          /\ _pool' = [_pool EXCEPT !.objs = Live([@ EXCEPT ![run[th].conn].resp = 0], _pool.conns, run')]
  /\ UNCHANGED <<agentVars, cfg, stop_event, clock, trace, svcVars, fcall, LOCK>>

(***************************************************************************)
(* SpecPool: the threads of PollerWorker._poll (and run_test) fetch        *)
(* /metrics from one agent or from two.                                    *)
(***************************************************************************)
AgentKeys == {"a:9001", "b:9001"}

InitPool ==
  /\ AgentIdle
  /\ cfg = <<>> /\ stop_event = FALSE /\ clock = 0 /\ trace = <<>>
  /\ fcall = <<>> /\ LOCK = 0 /\ NoSvc
  /\ run = [th \in Callers |-> NoCall]
  /\ _pool = [conns |-> EmptyDict, objs |-> EmptyDict]

NextPool ==
  \/ \E th \in Callers, k \in AgentKeys : HttpGet(th, k)
  \/ \E th \in Callers : PoolLookup(th)
  \/ \E th \in Callers : PoolCreate(th)
  \/ \E th \in Callers, ok \in BOOLEAN : ConnRequest(th, ok)
  \/ \E th \in Callers, ok \in BOOLEAN : ConnGetResponse(th, ok)
  \/ \E th \in Callers, ok \in BOOLEAN : RespRead(th, ok)

SpecPool == InitPool /\ [][NextPool]_vars

(***************************************************************************)
(* core.net_utils.http_post_json (lines 85-123) against the agent: one     *)
(* /client/start of the controller.  trace holds the requests written to   *)
(* a socket: [attempt, via, state, t], state "sent" until a handler thread *)
(* t of the agent reads it.  A request that was written is served whether  *)
(* or not the sender still waits for the answer.                           *)
(***************************************************************************)
\* the attempts: the pooled connection, a new pooled connection, urllib
POST_ATTEMPTS == 3
Via(n) == IF n = 1 THEN "pool" ELSE IF n = 2 THEN "fresh" ELSE "urllib"
Written(n) == [attempt |-> n, via |-> Via(n), state |-> "sent", t |-> 0]

\* the handler thread has sent its response to request n
Responded(n) ==
  /\ trace[n].state = "served"
  /\ pc[trace[n].t] = "idle" \/ \E m \in (n + 1)..Len(trace) : trace[m].t = trace[n].t

\* lines 99-100, 109-110 and 119-121: the request is written
PostSend ==
  /\ run.pc = "send"
  /\ trace' = Append(trace, Written(run.attempt))
  /\ run' = [run EXCEPT !.pc = "wait"]
  /\ UNCHANGED <<otherVars, agentVars, cfg, stop_event, clock>>

\* lines 101-104, 111-114 and 121-122: the response of the agent arrives
PostAnswered ==
  /\ run.pc = "wait" /\ Responded(Len(trace))
  /\ run' = [run EXCEPT !.pc = "done", !.ret = "json"]
  /\ UNCHANGED <<otherVars, agentVars, cfg, stop_event, clock, trace>>

\* lines 106-108 and 116-118: no response within the timeout, or the
\* connection breaks (OSError): the pooled connection is removed and the
\* request is sent again; the exception of the last attempt is raised
PostTimeout ==
  /\ run.pc = "wait"
  /\ run' = IF run.attempt < POST_ATTEMPTS THEN [run EXCEPT !.pc = "send", !.attempt = @ + 1]
            ELSE [run EXCEPT !.pc = "done", !.ret = "raised"]
  /\ UNCHANGED <<otherVars, agentVars, cfg, stop_event, clock, trace>>

\* Handler.do_POST for request n of the controller: as do_POST, and the
\* request is taken from the socket
Arrives(t, n, r) ==
  /\ trace[n].state = "sent"
  /\ Accepts(t) /\ r.method = "POST"
  /\ \E o \in {PostOutcome(r, EnvOk, Same(SERVER_PROCS, CLIENT_PROCS, procs, bulk))} :
       /\ SERVER_PROCS' = o.S
       /\ CLIENT_PROCS' = o.C
       /\ bulk' = o.bulk
       /\ pc' = [pc EXCEPT ![t] = o.next]
       /\ loc' = [loc EXCEPT ![t] = [NoLocals EXCEPT !.task = o.task]]
       /\ IF o.next = "idle"
          THEN last' = Sent(t, r, o.code, o.error, o.payload, EmptyDict) /\ UNCHANGED req
          ELSE req' = [req EXCEPT ![t] = r] /\ last' = NoSent
       /\ procs' = Reap(o.P, o.S, o.C, reader, loc')
       /\ heap' = HeapReap(heap, o.C, loc')
  /\ trace' = [trace EXCEPT ![n].state = "served", ![n].t = t]
  /\ UNCHANGED <<otherVars, cfgVars, httpd, mainPc, reader, now, view, cfg, stop_event, clock, run>>

(***************************************************************************)
(* SpecRetry: _start_one_client / run_test send one /client/start to an    *)
(* agent that runs no client.                                              *)
(***************************************************************************)
InitRetry ==
  /\ AgentIdle /\ NoOther
  /\ cfg = <<>> /\ stop_event = FALSE /\ clock = 0 /\ trace = <<>>
  /\ run = [pc |-> "send", attempt |-> 1, ret |-> ""]

NextRetry ==
  \/ PostSend
  \/ PostAnswered
  \/ PostTimeout
  \/ \E t \in Threads, n \in 1..Len(trace) : Arrives(t, n, Post("/client/start", TaskFwd))
  \/ \E t \in Threads : StartClientSpawn(t, TRUE)
  \/ \E t \in Threads : StartClientRegister(t)
  \/ \E t \in Threads : StartClientThread(t)
  \/ Tick

SpecRetry == InitRetry /\ [][NextRetry]_vars

(***************************************************************************)
(* AgentService.stop (lines 839-857).  The handler threads are daemon      *)
(* threads: httpd.shutdown() ends serve_forever and waits for none of      *)
(* them, so a handler that was entered before goes on after stop().        *)
(***************************************************************************)
\* lines 842-857: the flag is set, every registered process is stopped, the
\* registries are cleared, the HTTP server is shut down
Stops ==
  /\ LOCK = 0
  /\ stop_flag' = TRUE
  /\ \E P \in {StopAll(procs, {SERVER_PROCS[p] : p \in DOMAIN SERVER_PROCS}
                              \cup {CLIENT_PROCS[k].proc : k \in DOMAIN CLIENT_PROCS})} :
       procs' = Reap(P, EmptyDict, EmptyDict, reader, loc)
  /\ SERVER_PROCS' = EmptyDict
  /\ CLIENT_PROCS' = EmptyDict
  /\ bulk' = 0
  /\ heap' = HeapReap(heap, EmptyDict, loc)
  /\ httpd' = FALSE
  /\ last' = NoSent
  /\ UNCHANGED <<fcall, LOCK, _pool, disc, runVars, cfgVars, reader, now, pc, req, loc, view>>

\* stop() called by the thread that called start(), after start() returned
StopService ==
  /\ httpd /\ mainPc = "running" /\ main.sig = ""
  /\ Stops
  /\ mainPc' = "stopped"
  /\ UNCHANGED main

(***************************************************************************)
(* SpecShutdown: stop() of a running agent while /server/start and         *)
(* /client/start requests are served.                                      *)
(***************************************************************************)
InitShutdown ==
  /\ NoRun /\ NoOther
  /\ api_token = <<>> /\ autostart_ports = <<>>
  /\ Running(0)

NextShutdown ==
  \/ \E t \in Threads : Receive(t, Post("/server/start", PortsBody(<<PyInt(1)>>)))
  \/ \E t \in Threads : ServerStartEnter(t)
  \/ \E t \in Threads : ServerStartNext(t, TRUE)
  \/ \E t \in Threads : ServerStartWake(t)
  \/ \E t \in Threads : ServerStartLeave(t)
  \/ \E t \in Threads : (LOCK = 0 /\ do_POST(t, Post("/client/start", TaskFwd), EnvOk))
  \/ \E t \in Threads : StartClientSpawn(t, TRUE)
  \/ \E t \in Threads : (LOCK = 0 /\ StartClientRegister(t))
  \/ \E t \in Threads : StartClientThread(t)
  \/ \E pid \in DOMAIN reader : (LOCK = 0 /\ ReaderExit(pid, NoLine))
  \/ \E pid \in DOMAIN procs : ProcExit(pid)
  \/ StopService

SpecShutdown == InitShutdown /\ [][NextShutdown]_vars

(***************************************************************************)
(* The main thread: start() with its autostart loop under LOCK step by     *)
(* step (lines 814-822), and the handler of SIGINT / SIGTERM that start()  *)
(* registers at line 814 (_register_runtime_hooks, lines 140-162).  Python *)
(* runs a signal handler in the main thread, between two instructions of   *)
(* whatever the main thread executes: main.sig is "stop" while the handler *)
(* is inside stop(), and the interrupted code goes on only after the       *)
(* handler has returned.  LOCK is a threading.Lock: it is not reentrant.   *)
(***************************************************************************)
MainThread == NumThreads + 1

\* line 816: with self.LOCK
AutostartEnter ==
  /\ mainPc = "autostart" /\ main.sig # "stop" /\ LOCK = 0
  /\ LOCK' = MainThread
  /\ main' = [main EXCEPT !.rest = autostart_ports]
  /\ mainPc' = "auto_loop"
  /\ last' = NoSent
  /\ UNCHANGED <<fcall, _pool, stop_flag, disc, runVars, cfgVars, httpd, SERVER_PROCS, CLIENT_PROCS, bulk, procs,
                 heap, reader, now, pc, req, loc, view>>

\* lines 817-819 and 211-217: the next port; Popen returns the process or
\* raises, as int() may
AutostartNext(popen_ok) ==
  /\ mainPc = "auto_loop" /\ main.sig # "stop" /\ main.rest # <<>>
  /\ IF IntKind(Head(main.rest)) = "ok" /\ popen_ok
     THEN /\ Cardinality({x \in DOMAIN procs : x[1] = "s"}) < MaxSpawn
          /\ \E pid \in {NewPid(procs, "s", IntVal(Head(main.rest)))} :
               /\ procs' = Put(procs, pid, NewProc)
               /\ main' = [main EXCEPT !.proc = pid]
          /\ mainPc' = "auto_sleep"
     ELSE /\ main' = [main EXCEPT !.rest = Tail(@)]
          /\ UNCHANGED <<procs, mainPc>>
  /\ last' = NoSent
  /\ UNCHANGED <<fcall, LOCK, _pool, stop_flag, disc, runVars, cfgVars, httpd, SERVER_PROCS, CLIENT_PROCS, bulk,
                 heap, reader, now, pc, req, loc, view>>

\* lines 234-240 and 820: after time.sleep(0.15) the process is polled and
\* registered
AutostartWake ==
  /\ mainPc = "auto_sleep" /\ main.sig # "stop"
  /\ SERVER_PROCS' = IF main.proc \in DOMAIN procs /\ Alive(procs, main.proc)
                     THEN Put(SERVER_PROCS, IntVal(Head(main.rest)), main.proc) ELSE SERVER_PROCS
  /\ main' = [main EXCEPT !.rest = Tail(@), !.proc = NoPid]
  /\ mainPc' = "auto_loop"
  /\ procs' = Reap(procs, SERVER_PROCS', CLIENT_PROCS, reader, loc)
  /\ last' = NoSent
  /\ UNCHANGED <<fcall, LOCK, _pool, stop_flag, disc, runVars, cfgVars, httpd, CLIENT_PROCS, bulk, heap, reader,
                 now, pc, req, loc, view>>

\* the end of the with block; start() returns
AutostartLeave ==
  /\ mainPc = "auto_loop" /\ main.sig # "stop" /\ main.rest = <<>>
  /\ LOCK' = 0
  /\ mainPc' = "running"
  /\ last' = NoSent
  /\ UNCHANGED <<fcall, _pool, svcVars, runVars, cfgVars, httpd, SERVER_PROCS, CLIENT_PROCS, bulk, procs, heap,
                 reader, now, pc, req, loc, view>>

\* SIGINT or SIGTERM arrives once the handler is registered: _on_signal is
\* entered (line 158) and calls stop()
Signal ==
  /\ mainPc \in {"autostart", "auto_loop", "auto_sleep", "running"} /\ main.sig = ""
  /\ main' = [main EXCEPT !.sig = "stop"]
  /\ last' = NoSent
  /\ UNCHANGED <<fcall, LOCK, _pool, stop_flag, disc, runVars, agentVars>>

\* stop() inside the handler: it returns at once when httpd is not set, else
\* it takes LOCK (lines 840-857); then the handler returns
SignalStop ==
  /\ main.sig = "stop"
  /\ IF httpd
     THEN Stops
     ELSE /\ last' = NoSent
          /\ UNCHANGED <<fcall, LOCK, _pool, stop_flag, disc, runVars, cfgVars, httpd, SERVER_PROCS, CLIENT_PROCS,
                         bulk, procs, heap, reader, now, pc, req, loc, view>>
  /\ main' = [main EXCEPT !.sig = "done"]
  /\ mainPc' = IF mainPc = "running" THEN "stopped" ELSE mainPc

(***************************************************************************)
(* SpecSignal: a service is started with ports to autostart and a signal   *)
(* arrives at any moment.  SpecSignalFair: every thread that can take a    *)
(* step takes one.                                                         *)
(***************************************************************************)
InitSignal ==
  /\ NoRun /\ NoOther
  /\ api_token = <<>>
  /\ autostart_ports \in {<<PyInt(1), PyInt(2)>>, <<PyStr(<<"x">>), PyInt(1)>>}
  /\ Constructed

NextSignal ==
  \/ StartService
  \/ AutostartEnter
  \/ \E ok \in BOOLEAN : AutostartNext(ok)
  \/ AutostartWake
  \/ AutostartLeave
  \/ Signal
  \/ SignalStop
  \/ \E pid \in DOMAIN procs : ProcExit(pid)

SpecSignal == InitSignal /\ [][NextSignal]_vars
SpecSignalFair ==
  /\ SpecSignal
  /\ WF_vars(SignalStop)
  /\ WF_vars(AutostartEnter \/ (\E ok \in BOOLEAN : AutostartNext(ok)) \/ AutostartWake \/ AutostartLeave)

(***************************************************************************)
(* ui.workers.test_runner_worker.TestRunnerWorker.start_test (lines 53-76) *)
(* and the two flows it starts. run.caller is the position of the thread   *)
(* that called start_test: "start" before the call, "emit" between         *)
(* self._thread.start() and self.test_started.emit(), "done" afterwards.   *)
(* The signals emitted are appended to trace in the order of their emit    *)
(* calls.                                                                  *)
(***************************************************************************)
\* signal.emit(arg) of a signal other than log_message
Emits(signal, arg) == [kind |-> signal, to |-> <<>>, i |-> 0, path |-> arg, body |-> EmptyDict, ok |-> TRUE]

\* lines 60-75: the event is cleared, the flow is chosen by the mode and its
\* thread is started
StartTestThread ==
  /\ run.caller = "start"
  /\ stop_event' = FALSE
  /\ run' = [run EXCEPT !.caller = "emit",
                        !.pc = IF cfg.mode \in {sUpOnly, sDownOnly} THEN "server_start" ELSE "controller"]
  /\ UNCHANGED <<otherVars, agentVars, cfg, clock, trace>>

\* line 76
StartTestEmit ==
  /\ run.caller = "emit"
  /\ trace' = Append(trace, Emits("test_started", ""))
  /\ run' = [run EXCEPT !.caller = "done"]
  /\ UNCHANGED <<otherVars, agentVars, cfg, stop_event, clock>>

\* lines 164-165: an exception of the try block outside the inner try of
\* lines 97-118, such as int(cfg.get('base_port')) or cfg['clients'] (lines
\* 92-93) and int(cfg.get('parallel')) or c['target'] (lines 120-146)
CustomRaise ==
  /\ run.pc \in {"server_start", "spawn"}
  /\ trace' = Append(trace, Emits("error_occurred", "[custom flow ERROR]"))
  /\ run' = [run EXCEPT !.pc = "finally"]
  /\ UNCHANGED <<otherVars, agentVars, cfg, stop_event, clock>>

\* _run_controller_flow, lines 232-243: run_test returns or raises
RunControllerFlow(ok) ==
  /\ run.pc = "controller"
  /\ trace' = IF ok THEN Append(trace, Logs("controller_done"))
              ELSE Append(Append(trace, Emits("error_occurred", "Controller flow failed")), Logs("controller_done"))
  /\ run' = [run EXCEPT !.pc = "done"]
  /\ UNCHANGED <<otherVars, agentVars, cfg, stop_event, clock>>

(***************************************************************************)
(* SpecWorker: one start_test call with a custom or a controller           *)
(* configuration, requests and flows that fail, and a stop request.        *)
(***************************************************************************)
WorkerConfigs ==
  CustomConfigs \cup {Config(sSrv, <<ClientA>>, sBidir, Some(PyBool(FALSE)), EmptyDict, TRUE)}

InitWorker ==
  /\ AgentIdle /\ NoOther
  /\ cfg \in WorkerConfigs
  /\ stop_event \in BOOLEAN /\ clock = 0 /\ trace = <<>>
  /\ run = [pc |-> "unstarted", starting |-> {}, stopper |-> "none", i |-> 1, waited |-> 0, caller |-> "start"]

NextWorker ==
  \/ StartTestThread
  \/ StartTestEmit
  \/ CustomRaise
  \/ \E ok \in BOOLEAN : RunControllerFlow(ok)
  \/ \E ok \in BOOLEAN : CustomServerStart(ok)
  \/ \E ok \in BOOLEAN : WaitServersAlive(ok)
  \/ WaitServersExpired
  \/ CustomSpawn
  \/ \E i \in 1..Len(cfg.clients), ok \in BOOLEAN : StartOneClient(i, ok)
  \/ CustomWait
  \/ CustomTick
  \/ \E ok \in BOOLEAN : CustomFinally(ok)
  \/ run.caller = "done" /\ StopTest(FALSE)

SpecWorker == InitWorker /\ [][NextWorker]_vars

(***************************************************************************)
(* SpecExit: a running client whose reader merges lines and ends, while    *)
(* /status and /metrics are asked for by two threads.                      *)
(***************************************************************************)
InitExit ==
  /\ NoRun /\ NoOther
  /\ api_token = <<>> /\ autostart_ports = <<>>
  /\ \E task \in {TaskFwd, TaskRev} : RunningClient(task)

NextExit ==
  \/ \E pid \in DOMAIN reader, ln \in Lines : ReaderMerge(pid, ln)
  \/ \E pid \in DOMAIN reader, ln \in Lines : ReaderExit(pid, ln)
  \/ \E t \in Threads, r \in HttpGets : do_GET(t, r)
  \/ \E t \in Threads : SendJson(t)
  \/ \E pid \in DOMAIN procs : ProcExit(pid)

SpecExit == InitExit /\ [][NextExit]_vars

\* lines 101-104, 111-114 and 121-122: getresponse, read or json.loads
\* raises an exception that is neither OSError nor RuntimeError
\* (http.client.IncompleteRead, http.client.BadStatusLine, ValueError). The
\* except clause of line 106 does not catch it: on the pooled connection it
\* leaves http_post_json at once; 'except Exception' of line 116 catches it
\* on the second attempt; the third attempt has no except clause
PostBroken ==
  /\ run.pc = "wait"
  /\ run' = IF run.attempt = 2 THEN [run EXCEPT !.pc = "send", !.attempt = 3]
            ELSE [run EXCEPT !.pc = "done", !.ret = "raised"]
  /\ UNCHANGED <<otherVars, agentVars, cfg, stop_event, clock, trace>>

(***************************************************************************)
(* SpecPost: as SpecRetry, with responses that are cut short or malformed. *)
(***************************************************************************)
NextPost ==
  \/ NextRetry
  \/ PostBroken

SpecPost == InitRetry /\ [][NextPost]_vars

(***************************************************************************)
(* AgentService._discover_responder (lines 576-618), the thread start()    *)
(* creates at lines 811-812. disc[i] is the loop started by the i-th       *)
(* start(): pc "bind" before the loop, "check" at 'while not               *)
(* self.stop_flag', "recv" inside sock.recvfrom, "exited" after            *)
(* sock.close(); late: the loop has sent a reply after a stop() that       *)
(* followed its start.                                                     *)
(***************************************************************************)
\* the calls of start() in one behaviour
MaxStarts == 3

NewLoop == [pc |-> "bind", late |-> FALSE]

\* stop() was called after the start() that created loop i
Stale(i) == i < Len(disc) \/ mainPc = "stopped"

\* the loops that have not reached sock.close()
Responders == {i \in DOMAIN disc : disc[i].pc # "exited"}

\* start(), lines 792-814, without autostart ports: the flag is cleared, the
\* HTTP server and a responder thread are started. stop() joins no thread.
Start ==
  /\ ~httpd /\ mainPc \in {"new", "stopped"} /\ Len(disc) < MaxStarts
  /\ autostart_ports = <<>>
  /\ stop_flag' = FALSE
  /\ httpd' = TRUE
  /\ disc' = Append(disc, NewLoop)
  /\ mainPc' = "running"
  /\ last' = NoSent
  /\ UNCHANGED <<main, fcall, LOCK, _pool, runVars, cfgVars, SERVER_PROCS, CLIENT_PROCS, bulk, procs, heap, reader,
                 now, pc, req, loc, view>>

\* lines 577-590: the socket is bound with SO_REUSEADDR, which lets a second
\* socket bind the port while the first is open
DiscBind(i) ==
  /\ i \in DOMAIN disc /\ disc[i].pc = "bind"
  /\ disc' = [disc EXCEPT ![i].pc = "check"]
  /\ UNCHANGED <<main, stop_flag, fcall, LOCK, _pool, runVars, agentVars>>

\* line 591, 'while not self.stop_flag', and line 618 when the loop ends
DiscCheck(i) ==
  /\ i \in DOMAIN disc /\ disc[i].pc = "check"
  /\ disc' = [disc EXCEPT ![i].pc = IF stop_flag THEN "exited" ELSE "recv"]
  /\ UNCHANGED <<main, stop_flag, fcall, LOCK, _pool, runVars, agentVars>>

\* lines 592-595: recvfrom ends with socket.timeout after 0.5 s
DiscTimeout(i) ==
  /\ i \in DOMAIN disc /\ disc[i].pc = "recv"
  /\ disc' = [disc EXCEPT ![i].pc = "check"]
  /\ UNCHANGED <<main, stop_flag, fcall, LOCK, _pool, runVars, agentVars>>

\* lines 596-597: recvfrom raises another exception and the loop is left
DiscError(i) ==
  /\ i \in DOMAIN disc /\ disc[i].pc = "recv"
  /\ disc' = [disc EXCEPT ![i].pc = "exited"]
  /\ UNCHANGED <<main, stop_flag, fcall, LOCK, _pool, runVars, agentVars>>

\* lines 593 and 598-617: a datagram arrives; one that starts with
\* IPERF3_DISCOVER is answered, with the servers read under LOCK
DiscPacket(i, discover) ==
  /\ i \in DOMAIN disc /\ disc[i].pc = "recv"
  /\ discover => LOCK = 0
  /\ disc' = [disc EXCEPT ![i].pc = "check", ![i].late = @ \/ (discover /\ Stale(i))]
  /\ UNCHANGED <<main, stop_flag, fcall, LOCK, _pool, runVars, agentVars>>

(***************************************************************************)
(* SpecDiscover: the service is started and stopped up to MaxStarts times  *)
(* while datagrams arrive. SpecDiscoverFair: every responder thread that   *)
(* can take a step does so, and a recvfrom that can time out does.         *)
(***************************************************************************)
InitDiscover ==
  /\ NoRun /\ NoOther
  /\ api_token = <<>> /\ autostart_ports = <<>>
  /\ Constructed

Loops == 1..MaxStarts

NextDiscover ==
  \/ Start
  \/ StopService
  \/ \E i \in Loops : DiscBind(i)
  \/ \E i \in Loops : DiscCheck(i)
  \/ \E i \in Loops : DiscTimeout(i)
  \/ \E i \in Loops : DiscError(i)
  \/ \E i \in Loops, discover \in BOOLEAN : DiscPacket(i, discover)

SpecDiscover == InitDiscover /\ [][NextDiscover]_vars

SpecDiscoverFair ==
  /\ SpecDiscover
  /\ \A i \in Loops : WF_vars(DiscBind(i)) /\ WF_vars(DiscCheck(i)) /\ SF_vars(DiscTimeout(i))

(***************************************************************************)
(* SpecGet: threads call _pool.get through http_get_json for one agent or  *)
(* for two; every request is answered, so that _pool.remove and close_all  *)
(* are never called.                                                       *)
(***************************************************************************)
NextGet ==
  \/ \E th \in Callers, k \in AgentKeys : HttpGet(th, k)
  \/ \E th \in Callers : PoolLookup(th)
  \/ \E th \in Callers : PoolCreate(th)
  \/ \E th \in Callers : ConnRequest(th, TRUE)
  \/ \E th \in Callers : ConnGetResponse(th, TRUE)
  \/ \E th \in Callers, ok \in BOOLEAN : RespRead(th, ok)

SpecGet == InitPool /\ [][NextGet]_vars

(***************************************************************************)
(* The matchers of the reader thread (lines 101-125, 257-269, 437-546). A  *)
(* line of output is given by what the patterns look at: tag, the marker   *)
(* [TX-C] or [RX-C] after the stream id; bytes and rate, the figures       *)
(* before 'Bytes' and 'bits/sec' (None: not there), in bytes and Mbit/s;   *)
(* bad: the figure before 'Bytes' is made of digits, dots and commas that  *)
(* float() rejects, such as 1,234.5; udp: the line ends with the jitter in *)
(* ms and the loss in percent; role: the word sender or receiver at the    *)
(* end of the line.                                                        *)
(***************************************************************************)
RawLine(tag, bytes, rate, bad, udp, role) ==
  [tag |-> tag, bytes |-> bytes, rate |-> rate, bad |-> bad, udp |-> udp, role |-> role]

\* line 437: UDP_INTERVAL_RE2 is searched anywhere in the line and asks for
\* Bytes, bits/sec, ms and a percentage, whatever marker the line starts with
UdpMatches(raw) == raw.udp /\ raw.bytes # None /\ raw.rate # None
\* line 497: TCP_BR_RE asks for the marker, Bytes and bits/sec
TcpBrMatches(raw) == raw.tag # "" /\ raw.bytes # None /\ raw.rate # None
\* line 258: INTERVAL_RE asks for a number before bits/sec
GenericMatches(raw) == raw.rate # None

\* lines 439-473: a figure that does not convert raises inside the try
\* block, and the four values are None
UdpLine(raw) ==
  IF raw.bad THEN Line("udp", FALSE, "", None, None, None, None)
  ELSE Line("udp", FALSE, "", raw.rate, raw.bytes, Some(1), Some(1))

\* lines 499-511, outside any try block: _to_float returns None for a figure
\* that does not convert, and None * float raises TypeError
TcpBrLine(raw) ==
  IF raw.bad THEN Line("tcp_br", TRUE, raw.tag, None, None, None, None)
  ELSE Line("tcp_br", FALSE, raw.tag, raw.rate, raw.bytes, None, None)

\* group 'role' of INTERVAL_RE (lines 101-103): in
\* 'bits/sec\b.*?(?P<role>sender|receiver)?\b' the lazy '.*?' matches the
\* empty string and the optional group matches nothing, right after
\* 'bits/sec', where the match is complete; the group is never set
GenericRole(raw) == ""

\* the role of a line as the words of the line give it
RoleWord(raw) == raw.role

\* _parse_interval_line, lines 257-269
GenericLine(raw) == Line("generic", FALSE, GenericRole(raw), raw.rate, None, None, None)

Unmatched == Line("unmatched", FALSE, "", None, None, None, None)

\* the matchers in another order: the generic one before the marker
ParseGenericFirst(raw) ==
  IF UdpMatches(raw) THEN UdpLine(raw)
  ELSE IF GenericMatches(raw) THEN GenericLine(raw)
  ELSE IF TcpBrMatches(raw) THEN TcpBrLine(raw)
  ELSE Unmatched

\* lines 437-438, 497-498 and 532-533: the first matcher that accepts the
\* line; each branch ends with continue
Parse(raw) ==
  IF UdpMatches(raw) THEN UdpLine(raw)
  ELSE IF TcpBrMatches(raw) THEN TcpBrLine(raw)
  ELSE IF GenericMatches(raw) THEN GenericLine(raw)
  ELSE Unmatched

\* the lines read by one reader in a behaviour
MaxLines == 3

\* one round of 'for line in proc.stdout' (lines 431-546) for a line that
\* is there, and the finally block (lines 547-558) when the round raises.
\* fcall: the line read last, the key of its reader, and the count of lines
ReaderLine(pid, raw) ==
  /\ pid \in DOMAIN reader /\ fcall.ret < MaxLines
  /\ fcall' = [fn |-> "reader", args |-> <<raw, reader[pid].key>>, ret |-> fcall.ret + 1]
  /\ \E ln \in {Parse(raw)} :
       IF ln.raises
       THEN /\ \E code \in Poll(procs, pid) : CLIENT_PROCS' = Recorded(CLIENT_PROCS, reader[pid].key, code)
            /\ reader' = Pop(reader, pid)
            /\ procs' = Reap(procs, SERVER_PROCS, CLIENT_PROCS', reader', loc)
            /\ heap' = HeapReap(heap, CLIENT_PROCS', loc)
       ELSE /\ IF ln.kind = "unmatched" \/ ~Has(CLIENT_PROCS, reader[pid].key)
               THEN UNCHANGED <<CLIENT_PROCS, heap>>
               ELSE \E info \in {CLIENT_PROCS[reader[pid].key]} : \E obj \in {MergeTarget(info, heap)} :
                      /\ obj <= MaxObjs
                      /\ CLIENT_PROCS' = [CLIENT_PROCS EXCEPT ![reader[pid].key].last_json = Some(obj)]
                      /\ heap' = HeapReap(Put(heap, obj, MergeLine(Deref(heap, obj), ln,
                                                                   Truthy(Get(info.task, "reverse", PyNone)))),
                                          CLIENT_PROCS', loc)
            /\ UNCHANGED <<reader, procs>>
  /\ last' = NoSent
  /\ UNCHANGED <<svcVars, LOCK, _pool, runVars, cfgVars, httpd, mainPc, SERVER_PROCS, bulk, now, pc, req, loc, view>>

(***************************************************************************)
(* SpecLines: the reader of a client, forward or reverse, reads up to      *)
(* MaxLines lines; the service may be stopped meanwhile, which removes the *)
(* client from the registry.                                               *)
(***************************************************************************)
\* lines of iperf3: the interval line of a TCP stream with and without a
\* role word, marked lines of a bidirectional TCP and UDP test, an unmarked
\* UDP line, a marked line with a figure that does not convert, the same
\* for UDP, a bare rate with a role word, and a line without a rate
RawLines ==
  {RawLine("", Some(1), Some(1), FALSE, FALSE, "sender"),
   RawLine("", Some(2), Some(2), FALSE, FALSE, "receiver"),
   RawLine("", Some(1), Some(2), FALSE, FALSE, ""),
   RawLine("TX-C", Some(1), Some(1), FALSE, FALSE, ""),
   RawLine("RX-C", Some(2), Some(2), FALSE, FALSE, ""),
   RawLine("RX-C", Some(1), Some(2), FALSE, TRUE, ""),
   RawLine("", Some(2), Some(1), FALSE, TRUE, ""),
   RawLine("TX-C", Some(1), Some(1), TRUE, FALSE, ""),
   RawLine("", Some(1), Some(1), TRUE, TRUE, ""),
   RawLine("", None, Some(1), FALSE, FALSE, "sender"),
   RawLine("", None, None, FALSE, FALSE, "")}

InitLines ==
  /\ NoRun /\ LOCK = 0 /\ _pool = <<>> /\ NoSvc
  /\ fcall = [fn |-> "reader", args |-> <<>>, ret |-> 0]
  /\ api_token = <<>> /\ autostart_ports = <<>>
  /\ \E task \in {TaskFwd, TaskRev} : RunningClient(task)

NextLines ==
  \/ \E pid \in DOMAIN reader, raw \in RawLines : ReaderLine(pid, raw)
  \/ StopService

SpecLines == InitLines /\ [][NextLines]_vars

(***************************************************************************)
(* AgentService._parse_json_interval (lines 271-310). The JSON object of   *)
(* iperf3 --json is [intervals: a sequence of blocks], a block is          *)
(* [streams: a sequence of entries, sum: an entry or None], an entry is    *)
(* [mbps, sender, jitter, loss, bad]: bits_per_second in units of 10^6,    *)
(* None when the key is missing; bad: bits_per_second is not a number.     *)
(* The result is [none: the function returned None, d: the dict returned]. *)
(***************************************************************************)
JsonEntry(mbps, sender, jitter, loss, bad) ==
  [mbps |-> mbps, sender |-> sender, jitter |-> jitter, loss |-> loss, bad |-> bad]
Block(streams, sum) == [streams |-> streams, sum |-> sum]

ReturnsNone == [none |-> TRUE, d |-> EmptyDict]
Returns(d) == [none |-> FALSE, d |-> d]

Greater(a, b) == IF a >= b THEN a ELSE b

\* s.get('bits_per_second', 0) / 1_000_000.0
Mbps(s) == IF s.mbps = None THEN 0 ELSE The(s.mbps)

\* max(result.get(key, 0), value) when the entry has the key
MaxInto(result, key, v) == IF v = None THEN result ELSE Put(result, key, Greater(Get(result, key, 0), The(v)))

\* lines 298-307: one round of the loop over the streams
StreamInto(result, s) ==
  MaxInto(MaxInto(IF s.sender THEN Put(result, "interval_up_mbps", Get(result, "interval_up_mbps", 0) + Mbps(s))
                  ELSE Put(result, "interval_dn_mbps", Get(result, "interval_dn_mbps", 0) + Mbps(s)),
                  "jitter_ms", s.jitter),
          "loss_pct", s.loss)

RECURSIVE StreamsInto(_, _)
StreamsInto(result, streams) ==
  IF streams = <<>> THEN result ELSE StreamsInto(StreamInto(result, Head(streams)), Tail(streams))

\* the totals start from an empty result
NoSumInto(sums) == EmptyDict

\* lines 286-297: the figures of the 'sum' entry, when there is one, are
\* written into the result before the loop over the streams
SumInto(sums) ==
  IF sums = None THEN EmptyDict
  ELSE SetIf(SetIf(Put(EmptyDict, IF The(sums).sender THEN "interval_up_mbps" ELSE "interval_dn_mbps", Mbps(The(sums))),
                   "jitter_ms", The(sums).jitter),
             "loss_pct", The(sums).loss)

\* a division that raises TypeError, caught at line 309
BlockRaises(block) ==
  \/ block.sum # None /\ The(block.sum).bad
  \/ \E n \in DOMAIN block.streams : block.streams[n].bad

\* line 308: 'return result if result else None'
ResultOf(d) == IF d = EmptyDict THEN ReturnsNone ELSE Returns(d)

_parse_json_interval(json_obj) ==
  IF json_obj.intervals = <<>> THEN ReturnsNone
  ELSE IF BlockRaises(json_obj.intervals[Len(json_obj.intervals)]) THEN ReturnsNone
  ELSE ResultOf(StreamsInto(SumInto(json_obj.intervals[Len(json_obj.intervals)].sum),
                            json_obj.intervals[Len(json_obj.intervals)].streams))

(***************************************************************************)
(* SpecJson: _parse_json_interval is applied to objects of up to two       *)
(* blocks with up to two streams each, with and without a 'sum' entry.     *)
(***************************************************************************)
MaxStreams == 2

StreamEntries ==
  {JsonEntry(Some(1), TRUE, None, None, FALSE), JsonEntry(Some(2), FALSE, None, None, FALSE),
   JsonEntry(Some(1), FALSE, Some(1), Some(2), FALSE), JsonEntry(Some(2), TRUE, Some(3), Some(1), FALSE),
   JsonEntry(None, TRUE, None, None, FALSE), JsonEntry(None, FALSE, None, None, TRUE)}
SumEntries ==
  {None, Some(JsonEntry(Some(3), TRUE, Some(2), Some(1), FALSE)), Some(JsonEntry(Some(2), FALSE, None, None, FALSE))}
StreamLists == UNION {[1..n -> StreamEntries] : n \in 0..MaxStreams}
Blocks == {Block(streams, sum) : streams \in StreamLists, sum \in SumEntries}
JsonObjects ==
  {[intervals |-> <<>>]} \cup {[intervals |-> <<b>>] : b \in Blocks}
  \cup {[intervals |-> <<b, Block(<<>>, None)>>] : b \in {Block(<<JsonEntry(Some(1), TRUE, None, None, FALSE)>>, None)}}
  \cup {[intervals |-> <<Block(<<JsonEntry(Some(2), TRUE, Some(3), None, FALSE)>>, None), b>>] : b \in Blocks}

InitJson ==
  /\ AgentIdle /\ NoRun /\ LOCK = 0 /\ _pool = <<>> /\ NoSvc
  /\ \E json_obj \in JsonObjects : fcall = [fn |-> "_parse_json_interval", args |-> json_obj, ret |-> None]

ParseJsonInterval ==
  /\ fcall.ret = None
  /\ fcall' = [fcall EXCEPT !.ret = Some(_parse_json_interval(fcall.args))]
  /\ UNCHANGED <<agentVars, runVars, LOCK, _pool, svcVars>>

NextJson == ParseJsonInterval

SpecJson == InitJson /\ [][NextJson]_vars

\* the ports a list names: the values of its elements that int() converts
Listed(l) == {IntVal(l[i]) : i \in {j \in 1..Len(l) : IntKind(l[j]) = "ok"}}
\* the request names its ports in a list
StopsListed(r) ==
  r.method = "POST" /\ r.path = "/server/stop" /\ Has(r.body, "ports") /\ r.body["ports"].ty = "list"

\* C11: a /server/stop with a ports list removes and stops the registered
\* servers whose port the list names, and no other: the others stay
\* registered and running, and the response lists the ports removed.
C11_StopListed ==
  [][StopsListed(last'.req) =>
       /\ last'.code = 200
       /\ last'.payload.stopped = (DOMAIN SERVER_PROCS) \cap Listed(last'.req.body["ports"].l)
       /\ DOMAIN SERVER_PROCS' = (DOMAIN SERVER_PROCS) \ Listed(last'.req.body["ports"].l)
       /\ \A p \in DOMAIN SERVER_PROCS' :
            SERVER_PROCS'[p] = SERVER_PROCS[p] /\ procs'[SERVER_PROCS[p]] = procs[SERVER_PROCS[p]]]_vars

\* the request is a /server/start whose ports are a list
StartsListed(r) ==
  r.method = "POST" /\ r.path = "/server/start" /\ Has(r.body, "ports") /\ r.body["ports"].ty = "list"
\* the name of a requested port in the response: the text of its number, or
\* of the value itself when it is no number
PortName(v) == IF IntKind(v) = "ok" THEN StrOf(PyInt(IntVal(v))) ELSE StrOf(v)
NamesOf(ports) == {StrOf(PyInt(ports[i])) : i \in 1..Len(ports)}
Distinct(l) == \A i, j \in 1..Len(l) : PortName(l[i]) = PortName(l[j]) => i = j
\* every error is the failure of its own port
OwnFailure(l, errors, S) ==
  \A k \in DOMAIN errors :
    /\ errors[k] \in {"invalid_port", "max_servers", "exited_immediately", "oserror"}
    /\ errors[k] = "invalid_port" <=> (\E i \in 1..Len(l) : IntKind(l[i]) # "ok" /\ StrOf(l[i]) = k)
    /\ errors[k] = "max_servers" => Cardinality(DOMAIN S) >= MAX_SERVERS
\* started, already_running and the keys of errors partition the names
Partition(l, pl) ==
  /\ NamesOf(pl.started) \cup NamesOf(pl.already_running) \cup DOMAIN pl.errors = {PortName(l[i]) : i \in 1..Len(l)}
  /\ NamesOf(pl.started) \cap NamesOf(pl.already_running) = {}
  /\ NamesOf(pl.started) \cap DOMAIN pl.errors = {}
  /\ NamesOf(pl.already_running) \cap DOMAIN pl.errors = {}
  /\ Len(pl.started) + Len(pl.already_running) + Cardinality(DOMAIN pl.errors) = Len(l)

\* C12: a /server/start for a list of distinct ports is answered 200; every
\* port of the list is in exactly one of started, already_running and
\* errors; a port is in errors for a failure of its own (its value is no
\* number, the registry is full, its process did not start); the ports in
\* errors are not registered, the started ones are registered with a new
\* running process, and the ones already running keep their process.
C12_BatchStart ==
  [][(StartsListed(last'.req) /\ Distinct(last'.req.body["ports"].l)) =>
       /\ last'.code = 200
       /\ Partition(last'.req.body["ports"].l, last'.payload)
       /\ OwnFailure(last'.req.body["ports"].l, last'.payload.errors, SERVER_PROCS')
       /\ \A p \in DOMAIN SERVER_PROCS' : StrOf(PyInt(p)) \notin DOMAIN last'.payload.errors
       /\ \A i \in 1..Len(last'.payload.started) :
            /\ Has(SERVER_PROCS', last'.payload.started[i])
            /\ SERVER_PROCS'[last'.payload.started[i]] \notin DOMAIN procs
            /\ Alive(procs', SERVER_PROCS'[last'.payload.started[i]])
       /\ \A i \in 1..Len(last'.payload.already_running) :
            /\ Has(SERVER_PROCS, last'.payload.already_running[i])
            /\ SERVER_PROCS'[last'.payload.already_running[i]] = SERVER_PROCS[last'.payload.already_running[i]]]_vars

\* a batch whose first port is no number and whose second port did not
\* start, and whose third port was started
C12_Batch ==
  /\ last.req.path = "/server/start" /\ last.code = 200
  /\ DOMAIN last.payload.errors = {<<"x">>, <<"1">>}
  /\ last.payload.errors[<<"1">>] = "exited_immediately"
  /\ last.payload.started = <<2>>
  /\ Has(SERVER_PROCS, 2) /\ ~Has(SERVER_PROCS, 1)

\* thread t builds the response to a GET /status in this step
BuildsStatus(t) == pc[t] = "idle" /\ pc'[t] = "dump" /\ req'[t].path = "/status"

\* C13: the step that builds a /status response removes from the registry
\* every server whose process has exited and keeps the others, and collects
\* the ports that remain, each with a running process; the response reports
\* the ports collected; a /server/stop without ports leaves the registry
\* empty, so that a /status built after it, with no start in between,
\* reports no server.
C13_StatusAlive ==
  [][/\ \A t \in Threads : BuildsStatus(t) =>
          /\ DOMAIN SERVER_PROCS' = {p \in DOMAIN SERVER_PROCS : Alive(procs, SERVER_PROCS[p])}
          /\ \A p \in DOMAIN SERVER_PROCS' : SERVER_PROCS'[p] = SERVER_PROCS[p] /\ Alive(procs', SERVER_PROCS'[p])
          /\ loc'[t].servers = DOMAIN SERVER_PROCS'
          /\ DOMAIN SERVER_PROCS = {} => loc'[t].servers = {}
     /\ (last'.req.method = "GET" /\ last'.req.path = "/status") =>
          /\ last'.code = 200
          /\ last'.payload.servers = loc[last'.t].servers
     /\ (last'.req.method = "POST" /\ last'.req.path = "/server/stop" /\ ~Has(last'.req.body, "ports")) =>
          DOMAIN SERVER_PROCS' = {}]_vars

\* the process of the server on port 1 exited, and a /status response that
\* reports the server on port 2 alone took port 1 out of the registry
C13_Pruned ==
  /\ last.req.path = "/status" /\ last.code = 200
  /\ last.payload.servers = {2}
  /\ DOMAIN SERVER_PROCS = {2} /\ Alive(procs, SERVER_PROCS[2])

\* C14: when the reader thread of a client ends, the entry it removes from
\* the registry is the entry of its own process, never the entry of another
\* client.
C14_OwnEntry ==
  [][\A pid \in (DOMAIN reader) \ (DOMAIN reader') :
       \A k \in (DOMAIN CLIENT_PROCS) \ (DOMAIN CLIENT_PROCS') : CLIENT_PROCS[k].proc = pid]_vars

\* the operations of a call of _stop_proc, in order
OpsOf(c) == [i \in 1..Len(c.calls) |-> c.calls[i].op]
\* the wait of the call timed out, or one of terminate and wait raised OSError
Escalates(c) ==
  \E i \in 1..Len(c.calls) :
    c.calls[i].op \in {"terminate", "wait"} /\ c.calls[i].res \in {"TimeoutExpired", "OSError"}

\* C15: every call of _stop_proc calls terminate first and, when terminate
\* returned, waits for the process with a timeout of 2 s; it calls kill, as
\* its last call, exactly when the wait timed out or terminate or wait raised
\* OSError; it makes no other call, waits nowhere without a timeout, and no
\* exception leaves it.
C15_StopEscalates ==
  \A n \in 1..Len(trace) :
    /\ trace[n].raised = ""
    /\ OpsOf(trace[n]) \in {<<"terminate", "wait">>, <<"terminate", "wait", "kill">>, <<"terminate", "kill">>}
    /\ trace[n].calls[1].res = "ok" => OpsOf(trace[n])[2] = "wait"
    /\ \A i \in 1..Len(trace[n].calls) :
         trace[n].calls[i].timeout = (IF trace[n].calls[i].op = "wait" THEN 2 ELSE 0)
    /\ Escalates(trace[n]) <=> OpsOf(trace[n])[Len(trace[n].calls)] = "kill"

\* a process ignored terminate for 2 s and was killed, and for another one
\* terminate and kill both raised OSError
C15_Escalated ==
  /\ Len(trace) = 2
  /\ OpsOf(trace[1]) = <<"terminate", "wait", "kill">> /\ trace[1].calls[2].res = "TimeoutExpired"
  /\ ~procs[trace[1].proc].alive
  /\ OpsOf(trace[2]) = <<"terminate", "kill">> /\ trace[2].calls[2].res = "OSError"

\* the place of a call in a run: 1 /server/start, 2 /client/start, 3 a
\* metrics poll, 4 /client/stop, 5 /server/stop, 6 the line 'finished'; 0
\* for the other lines of the log
Phase(e) ==
  CASE e.kind = "post" /\ e.path = "/server/start" -> 1
    [] e.kind = "post" /\ e.path = "/client/start" -> 2
    [] e.kind = "poll" -> 3
    [] e.kind = "post" /\ e.path = "/client/stop" -> 4
    [] e.kind = "post" /\ e.path = "/server/stop" -> 5
    [] e = Logs("finished") -> 6
    [] OTHER -> 0
\* the positions of the trace that hold a POST of path to client i
PostsTo(path, i) == {n \in 1..Len(trace) : trace[n].kind = "post" /\ trace[n].path = path /\ trace[n].i = i}

\* C16: the calls of a run come in the order /server/start, /client/start,
\* polls, /client/stop, /server/stop, 'finished'; /server/start and
\* /server/stop go to the server agent only, at most once; when the run is
\* over every client was sent exactly one /client/stop at its own agent,
\* /server/stop was sent iff a server agent is configured and
\* keep_servers_open is false, and 'finished' is the last line, logged
\* nowhere else.
C16_RunOrder ==
  /\ \A m, n \in 1..Len(trace) : (m < n /\ Phase(trace[m]) > 0 /\ Phase(trace[n]) > 0) => Phase(trace[m]) <= Phase(trace[n])
  /\ \A n \in 1..Len(trace) : Phase(trace[n]) \in {1, 5} => (trace[n].to = cfg.server /\ cfg.server # <<>>)
  /\ Cardinality(PostsTo("/server/start", 0)) <= 1 /\ Cardinality(PostsTo("/server/stop", 0)) <= 1
  /\ \A n \in 1..Len(trace) : Phase(trace[n]) = 6 => (n = Len(trace) /\ run.pc = "done")
  /\ run.pc = "done" =>
       /\ trace[Len(trace)] = Logs("finished")
       /\ \A i \in 1..Len(cfg.clients) :
            /\ Cardinality(PostsTo("/client/stop", i)) = 1
            /\ \A n \in PostsTo("/client/stop", i) : trace[n].to = cfg.clients[i]["agent"].s
       /\ PostsTo("/server/stop", 0) # {} <=> (cfg.server # <<>> /\ cfg.keep_servers_open = Some(PyBool(FALSE)))

\* a run with two clients that started both, polled them, was asked to stop,
\* stopped the clients and the servers, and is over
C16_Ran ==
  /\ run.pc = "done" /\ Len(cfg.clients) = 2
  /\ PostsTo("/server/start", 0) # {} /\ PostsTo("/client/start", 2) # {}
  /\ \E n \in 1..Len(trace) : trace[n].kind = "poll" /\ trace[n].i = 2
  /\ PostsTo("/client/stop", 2) # {} /\ PostsTo("/server/stop", 0) # {}

\* every client that has a target was sent a /client/start, every poll
\* iteration that began went on to the next client, every client was sent a
\* /client/stop
Complete ==
  /\ \A i \in 1..Len(cfg.clients) :
       /\ Truthy(cfg.clients[i]["target"]) => PostsTo("/client/start", i) # {}
       /\ PostsTo("/client/stop", i) # {}
  /\ \A n \in 1..(Len(trace) - 1) :
       (trace[n].kind = "poll" /\ trace[n].i < Len(cfg.clients)) =>
         (trace[n + 1].kind = "poll" /\ trace[n + 1].i = trace[n].i + 1)

\* C17: every run reaches its end, whichever of its requests fail, and a run
\* that is over has started, polled and stopped every client and logged
\* 'finished'.
C17_NoAbort ==
  /\ [](run.pc = "done" => (Complete /\ trace[Len(trace)] = Logs("finished")))
  /\ <>(run.pc = "done")

\* a run in which /server/start, the /client/start of the first client, a
\* poll of the first client and the /client/stop of the first client failed,
\* and which went on with the second client each time and is over
C17_Survived ==
  /\ run.pc = "done" /\ Len(cfg.clients) = 2
  /\ \E n \in PostsTo("/server/start", 0) : ~trace[n].ok
  /\ \E n \in PostsTo("/client/start", 1) : ~trace[n].ok
  /\ \E n \in PostsTo("/client/start", 2) : trace[n].ok
  /\ \E n \in 1..(Len(trace) - 1) : trace[n] = Polls(sA, 1, FALSE) /\ trace[n + 1] = Polls(sB, 2, TRUE)
  /\ \E n \in PostsTo("/client/stop", 1) : ~trace[n].ok
  /\ \E n \in PostsTo("/client/stop", 2) : trace[n].ok

\* C18: the direction flags of every /client/start are those of the mode of
\* the client (its own mode, else the mode of the configuration): bidir true
\* and no reverse for bidir, reverse true and no bidir for down_only,
\* neither flag for any other mode.
C18_ModeSetsDirection ==
  \A i \in 1..Len(cfg.clients) : \A n \in PostsTo("/client/start", i) :
    /\ ModeOf(cfg.clients[i], cfg.mode) = sBidir =>
         (Get(trace[n].body, "bidir", PyNone) = PyBool(TRUE) /\ ~Has(trace[n].body, "reverse"))
    /\ ModeOf(cfg.clients[i], cfg.mode) = sDownOnly =>
         (Get(trace[n].body, "reverse", PyNone) = PyBool(TRUE) /\ ~Has(trace[n].body, "bidir"))
    /\ ModeOf(cfg.clients[i], cfg.mode) \notin {sBidir, sDownOnly} =>
         (~Has(trace[n].body, "reverse") /\ ~Has(trace[n].body, "bidir"))

\* a poll iteration begins in this step
IterationStarts == run.pc = "poll_check" /\ run'.pc = "poll"

\* C20: no poll iteration begins while the stop flag is set, nor after more
\* than duration + 1 s have passed since the polling began; once the flag is
\* set the run goes on to its end, and so does every run without a stop
\* request; the run that is over has sent its stop requests.
C20_Cancel ==
  /\ [][IterationStarts => (~(cfg.stop /\ stop_event) /\ clock - run.t0 <= cfg.duration_sec + 1)]_vars
  /\ (cfg.stop /\ stop_event) ~> (run.pc = "done")
  /\ <>(run.pc = "done")
  /\ [](run.pc = "done" => \A i \in 1..Len(cfg.clients) : PostsTo("/client/stop", i) # {})

\* the stop flag was set during the first poll iteration, less than
\* duration + 1 s after the polling began: that iteration was the last one,
\* 'stop requested' was logged, and the run is over
C20_Stopped ==
  /\ run.pc = "done" /\ stop_event /\ Len(cfg.clients) = 2
  /\ clock - run.t0 <= cfg.duration_sec + 1
  /\ Cardinality({n \in 1..Len(trace) : trace[n].kind = "poll"}) = 2
  /\ \E n \in 1..Len(trace) : trace[n] = Logs("stop requested")

\* the custom flow and the thread of stop_test, if any, have ended
CustomOver == run.pc = "done" /\ run.stopper \in {"none", "done"}

\* C19: when a custom flow has ended, by the end of its duration or by a
\* stop request, a /client/stop was sent to every client agent; a
\* /server/stop was sent iff keep_servers_open is false, and each
\* /server/stop came after a /client/stop to every client.
C19_CustomStops ==
  /\ CustomOver =>
       /\ \A i \in 1..Len(cfg.clients) : PostsTo("/client/stop", i) # {}
       /\ PostsTo("/server/stop", 0) # {} <=> cfg.keep_servers_open = Some(PyBool(FALSE))
  /\ \A n \in PostsTo("/server/stop", 0) : \A i \in 1..Len(cfg.clients) :
       \E m \in PostsTo("/client/stop", i) : m < n

\* the positions of the trace after the /server/start and before position n
SinceServerStart(n) == {k \in 1..(n - 1) : \E m \in PostsTo("/server/start", 0) : m < k}

\* C21: in the custom flow, a /client/start that follows the /server/start
\* is sent only after a /status that listed every requested port as alive,
\* or after the wait of 3 s is over.
C21_WaitsForServers ==
  \A n \in 1..Len(trace) :
    (trace[n].kind = "post" /\ trace[n].path = "/client/start" /\ PostsTo("/server/start", 0) # {}) =>
      \/ \E k \in SinceServerStart(n) : trace[k] = Asks(cfg.server, TRUE)
      \/ Cardinality({k \in SinceServerStart(n) : trace[k] = Asks(cfg.server, FALSE)}) > WAIT_ALIVE

\* the polls of the row that was computed, and what the GET of poll i got:
\* the object of the first attempt, else of the retry that follows a
\* connection error or a timeout, else nothing
RowPolls == IF fcall.ret = None THEN {} ELSE 1..Len(fcall.args.polls)
FetchedBy(p) ==
  IF p.first.kind = "ok" THEN Some(p.first.obj)
  ELSE IF p.first.kind \in {"refused", "timeout"} /\ p.second.kind = "ok" THEN Some(p.second.obj)
  ELSE None
PollResult(i) == The(fcall.ret).polls[i]

\* C22: poll_metrics never raises, and when /metrics cannot be fetched
\* (connection refused, timeout, a status that is not 2xx, a body that is no
\* JSON) http_get_json returns None and poll_metrics returns 0, 0 and None
\* for the byte counters, jitter and loss.
C22_PollNeverRaises ==
  \A i \in RowPolls :
    /\ ~PollResult(i).raised
    /\ FetchedBy(fcall.args.polls[i]) = None =>
         /\ http_get_json(fcall.args.polls[i].first, fcall.args.polls[i].second) = Got(FALSE, None)
         /\ PollResult(i) = [raised |-> FALSE, up |-> 0, dn |-> 0, ub |-> PyNone, db |-> PyNone, jit |-> PyNone, los |-> PyNone]

\* the poll of an agent that refused the connection twice returned zeros
C22_Unreachable ==
  \E i \in RowPolls :
    /\ fcall.args.polls[i] = Polled(Fetched("refused", Metrics(<<>>)), Fetched("refused", Metrics(<<>>)))
    /\ PollResult(i).up = 0 /\ PollResult(i).dn = 0 /\ PollResult(i).jit = PyNone

RECURSIVE SumOf(_)
SumOf(ns) == IF ns = <<>> THEN 0 ELSE Head(ns) + SumOf(Tail(ns))
\* the upload and download value of entry e under hint h
ValueOf(e, h) == EntryRates(SnapshotOf(e), h)
OneUp == Polled(Fetched("ok", Metrics(<<Entry(Snap(Some(PyInt(100)), None, None))>>)), NoFetch)
UpAndDown == Polled(Fetched("ok", Metrics(<<Entry(Snap(Some(PyInt(50)), Some(PyInt(20)), None))>>)), NoFetch)

\* C26: the upload and download of a poll are the sums of the upload and
\* download values of the entries of /metrics, the totals of a row are the
\* sums over the clients, an entry without a snapshot and an agent that is
\* not reachable count as zero, and two clients that report up 100 and up 50,
\* down 20 give the totals 150 and 20.
C26_PlainSum ==
  /\ \A i \in RowPolls :
       IF FetchedBy(fcall.args.polls[i]) = None
       THEN PollResult(i).up = 0 /\ PollResult(i).dn = 0
       ELSE \E m \in {The(FetchedBy(fcall.args.polls[i])).metrics} :
              /\ PollResult(i).up = SumOf([k \in 1..Len(m) |-> ValueOf(m[k], fcall.args.mode_hint).u])
              /\ PollResult(i).dn = SumOf([k \in 1..Len(m) |-> ValueOf(m[k], fcall.args.mode_hint).d])
              /\ \A k \in 1..Len(m) : m[k] = NoSnapshot => ValueOf(m[k], fcall.args.mode_hint) = UpDn(0, 0)
  /\ fcall.ret # None =>
       /\ The(fcall.ret).total.u = SumOf([i \in 1..Len(fcall.args.polls) |-> PollResult(i).up])
       /\ The(fcall.ret).total.d = SumOf([i \in 1..Len(fcall.args.polls) |-> PollResult(i).dn])
       /\ fcall.args.polls = <<OneUp, UpAndDown>> => The(fcall.ret).total = UpDn(150, 20)

\* the row of two clients that report up 100 and up 50, down 20
C26_Example ==
  /\ fcall.ret # None /\ fcall.args.polls = <<OneUp, UpAndDown>>
  /\ The(fcall.ret).total = UpDn(150, 20)

\* a snapshot holds one of the keys, and the value under the first it holds
Holds(j, keys) == \E n \in 1..Len(keys) : Has(j, keys[n])
Under(j, keys) == pick(j, keys, PyInt(0)).n

\* C27: for a poll of one entry: a snapshot with a sum and no upload or
\* download value gives the sum to upload under the hint up_only and to
\* download otherwise; a snapshot with a sum and one direction gives the
\* other direction the sum minus the known one, or zero when that is
\* negative; a direction the snapshot carries is reported as it is.
C27_HintAttribution ==
  \A i \in RowPolls :
    (FetchedBy(fcall.args.polls[i]) # None /\ Len(The(FetchedBy(fcall.args.polls[i])).metrics) = 1) =>
      \E j \in {SnapshotOf(The(FetchedBy(fcall.args.polls[i])).metrics[1])} :
        /\ (~Holds(j, UP_KEYS) /\ ~Holds(j, DN_KEYS) /\ Holds(j, SUM_KEYS)) =>
             IF fcall.args.mode_hint = Some(sUpOnly)
             THEN PollResult(i).up = Under(j, SUM_KEYS) /\ PollResult(i).dn = 0
             ELSE PollResult(i).up = 0 /\ PollResult(i).dn = Under(j, SUM_KEYS)
        /\ (Holds(j, UP_KEYS) /\ ~Holds(j, DN_KEYS) /\ Holds(j, SUM_KEYS)) =>
             PollResult(i).dn = Max2(0, Under(j, SUM_KEYS) - Under(j, UP_KEYS))
        /\ (Holds(j, DN_KEYS) /\ ~Holds(j, UP_KEYS) /\ Holds(j, SUM_KEYS)) =>
             PollResult(i).up = Max2(0, Under(j, SUM_KEYS) - Under(j, DN_KEYS))
        /\ Holds(j, UP_KEYS) => PollResult(i).up = Under(j, UP_KEYS)
        /\ Holds(j, DN_KEYS) => PollResult(i).dn = Under(j, DN_KEYS)

\* the aliases of the canonical fields, and the canonical fields that hold
\* numbers
ALIASES ==
  ("proto" :> <<"protocol">>) @@ ("duration" :> <<"time", "seconds">>) @@ ("parallel" :> <<"P", "pairs", "threads">>)
  @@ ("bitrate" :> <<"bandwidth", "bw">>) @@ ("length" :> <<"len", "bytes">>) @@ ("bind" :> <<"bind_ip">>)
NumericFields == {"duration", "parallel", "local_port"}
\* the task a call of _normalize_task returned
Returned == The(fcall.ret).task
IsTokenList(v) == v.ty = "list" /\ \A i \in 1..Len(v.l) : (v.l[i].ty = "str" /\ v.l[i].s # <<>> /\ " " \notin Range(v.l[i].s))

\* C23: _normalize_task does not raise and leaves its argument as it was; in
\* the dict it returns a canonical field that was absent has the value of one
\* of its aliases, reverse and bidir given as strings are booleans, a numeric
\* canonical field given as a string of digits is an integer, and extra_args
\* that was no list is a list of tokens.
C23_Normalizes ==
  fcall.ret # None =>
    /\ ~The(fcall.ret).raised
    /\ The(fcall.ret).data = fcall.args
    /\ \A c \in DOMAIN ALIASES :
         (~Has(fcall.args, c) /\ \E n \in 1..Len(ALIASES[c]) : Has(fcall.args, ALIASES[c][n])) =>
           (Has(Returned, c) /\ \E n \in 1..Len(ALIASES[c]) : (Has(fcall.args, ALIASES[c][n]) /\ fcall.args[ALIASES[c][n]] = Returned[c]))
    /\ \A k \in {"reverse", "bidir"} :
         (Has(fcall.args, k) /\ fcall.args[k].ty = "str") =>
           Returned[k] = PyBool(StrLower(fcall.args[k].s) \in TrueWords)
    /\ \A k \in NumericFields \cap DOMAIN Returned : Returned[k].ty = "str" => ~StrIsdigit(Returned[k].s)
    /\ (Has(fcall.args, "extra_args") /\ fcall.args["extra_args"].ty # "list") => IsTokenList(Returned["extra_args"])

ScalarFields ==
  {"server_agent", "server_bind", "api_key", "keep_servers_open", "mode", "duration_sec", "base_port",
   "proto", "parallel", "omit", "bitrate", "length", "tcp_window", "poll_interval_sec"}
ClientFields == {"name", "agent", "target", "reverse", "bidir"}
SavedTwice == fcall.fn = "to_dict" /\ fcall.ret # None
Reproduces(c, r) ==
  /\ ~r.raised
  /\ \A f \in ScalarFields : r.c2[f] = c[f]
  /\ Len(r.c2.clients) = Len(c.clients)
  /\ \A i \in 1..Len(c.clients) : \A f \in ClientFields : r.c2.clients[i][f] = c.clients[i][f]
  /\ r.d2 = r.d1

\* C24: from_dict(to_dict(c)) reproduces every scalar field of c and every
\* client's name, agent, target, reverse and bidir, and to_dict of the
\* result is the dict of the first to_dict.
C24_RoundTrip == SavedTwice => Reproduces(fcall.args, The(fcall.ret))

\* the same for the configurations none of whose clients has a parallel or
\* omit that to_dict turns into the integer 0 or that int() rejects
ZeroEntry(v) == NumberEntry(v) = Some(PyInt(0))
PlainNumbers(c) ==
  \A i \in 1..Len(c.clients) :
    /\ ~ZeroEntry(c.clients[i].parallel) /\ ~ZeroEntry(c.clients[i].omit)
    /\ ~ClientToDictRaises(c.clients[i])
T24_RoundTrip == SavedTwice /\ PlainNumbers(fcall.args) => Reproduces(fcall.args, The(fcall.ret))
T24_Unstable == ~(SavedTwice /\ ~The(fcall.ret).raised /\ The(fcall.ret).d2 # The(fcall.ret).d1)
T24_Raises == ~(SavedTwice /\ The(fcall.ret).raised)

Contains(s, w) == \E i \in 1..(Len(s) - Len(w) + 1) : SubSeq(s, i, i + Len(w) - 1) = w
ValidatedNow == fcall.fn = "validate" /\ fcall.ret # None
HasBidir(c) == \E i \in 1..Len(c.clients) : c.clients[i].bidir.b
ReportsUdpBidir(r) == ~r.raised /\ \E i \in 1..Len(r.errors) : (Contains(r.errors[i], "UDP") /\ Contains(r.errors[i], "bidir"))

\* C25: validate reports an error mentioning UDP and bidir for every
\* configuration whose proto is udp and that has a client with bidir true.
C25_UdpBidir ==
  ValidatedNow /\ fcall.args.proto.s = sUdp /\ HasBidir(fcall.args) => ReportsUdpBidir(The(fcall.ret))

\* the same when validate returns and a client with bidir has udp as its own
\* or inherited protocol
T25_EffectiveUdp ==
  ValidatedNow /\ ~The(fcall.ret).raised
  /\ (\E i \in 1..Len(fcall.args.clients) :
        (fcall.args.clients[i].bidir.b /\ EffectiveProto(fcall.args.clients[i], fcall.args) = sUdp))
  => ReportsUdpBidir(The(fcall.ret))
T25_Raises == ~(ValidatedNow /\ The(fcall.ret).raised)

Blocking == {"ss_sleep", "stop_wait"}
\* C28: no thread holds LOCK while it sleeps through the start grace period or
\* waits for a subprocess to terminate, and no /status or /metrics read waits
\* for LOCK behind such a thread.
C28_LockHeldBriefly ==
  /\ \A t \in Threads : pc[t] \in Blocking => LOCK # t
  /\ \A t \in Threads : (pc[t] = "acquire" /\ req[t].method = "GET") => (LOCK = 0 \/ pc[LOCK] \notin Blocking)
T28_Held == \A t \in Threads : pc[t] \in Blocking => LOCK # t
T28_ReadBlocked == \A t \in Threads : ~(pc[t] = "acquire" /\ req[t].method = "GET" /\ LOCK # 0 /\ pc[LOCK] \in Blocking)
T28_Mutex == LOCK # 0 => pc[LOCK] \in {"ss_loop", "ss_sleep", "stop_loop", "stop_wait"}

\* the thread has sent a request and has not read the response to the end
InFlight(th) == run[th].pc \in {"response", "read"}
\* C29: while one thread has a request in flight on a pooled connection, no
\* other thread has sent a request or reads a response on the same connection.
C29_OneUserPerConnection ==
  \A a, b \in Callers : (a # b /\ InFlight(a) /\ InFlight(b)) => run[a].conn # run[b].conn
\* connections are shared by calls to the same agent only
T29_SameAgent ==
  \A a, b \in Callers : (a # b /\ InFlight(a) /\ InFlight(b) /\ run[a].conn = run[b].conn) => run[a].key = run[b].key
\* a thread is handed the object another thread has a request in flight on
T29_Handed ==
  \A a, b \in Callers : (a # b /\ InFlight(a) /\ run[b].pc = "request") => run[a].conn # run[b].conn

ClientsStarted == Cardinality({x \in DOMAIN procs : x[1] = "c"})
\* C30: one /client/start dispatched by the orchestrator starts at most one
\* client subprocess on the agent, whatever http_post_json retries.
C30_StartsOnce == ClientsStarted <= 1
\* a call whose every request is answered in time starts one client
T30_NoRetry == (run.attempt = 1) => ClientsStarted <= 1
\* the call returned and two clients run
T30_ReturnedTwice == ~(run.pc = "done" /\ run.ret = "json" /\ Cardinality(DOMAIN CLIENT_PROCS) >= 2)

Stopped == mainPc = "stopped"
\* C31: after stop() has returned the server and client registries are empty
\* and every subprocess of the agent that still runs has been asked to stop.
C31_StoppedIsEmpty ==
  Stopped => /\ SERVER_PROCS = EmptyDict /\ CLIENT_PROCS = EmptyDict
             /\ \A pid \in DOMAIN procs : procs[pid].alive => procs[pid].stopped
\* the same where no handler was at work when stop() began
T31_NoneInFlight == [][(mainPc = "running" /\ mainPc' = "stopped" /\ \A t \in Threads : pc[t] = "idle")
                        => (SERVER_PROCS' = EmptyDict /\ CLIENT_PROCS' = EmptyDict)]_vars
T31_Servers == Stopped => SERVER_PROCS = EmptyDict
T31_Clients == Stopped => CLIENT_PROCS = EmptyDict

\* C32: stop() called by the signal handler always completes.
C32_SignalStopCompletes == (main.sig = "stop") ~> (main.sig = "done")
\* the handler waits for the lock that the thread it interrupted holds
T32_SelfBlocked == ~(main.sig = "stop" /\ httpd /\ LOCK = MainThread)
\* a signal that arrives outside the autostart block is handled
T32_OutsideAutostart == (main.sig = "stop" /\ LOCK = 0) ~> (main.sig = "done")

IsFinished(e) == e.kind = "log" /\ e.path \in {"custom_done", "controller_done"}
Finished == {n \in DOMAIN trace : IsFinished(trace[n])}
StartedAt == {n \in DOMAIN trace : trace[n].kind = "test_started"}
\* C33: a start_test call leads to exactly one test_finished event whatever
\* errors occur in the flow, and the test_started event of the call is
\* emitted before its test_finished event.
C33_StartedThenFinished ==
  /\ Cardinality(Finished) <= 1
  /\ run.pc = "done" => Cardinality(Finished) = 1
  /\ \A n \in Finished : \E m \in StartedAt : m < n
\* the first half alone: one test_finished event, emitted when the flow ends
T33_FinishedOnce ==
  /\ Cardinality(Finished) <= 1
  /\ run.pc = "done" <=> Cardinality(Finished) = 1

\* the client entries of a response to /status or /metrics
ClientsOf(body) ==
  IF "clients" \in DOMAIN body THEN body.clients
  ELSE IF "metrics" \in DOMAIN body THEN body.metrics ELSE EmptyDict
\* C34: every client entry of a /status or /metrics response has exit_code
\* null, and so has every entry of the registry while LOCK is free.
C34_ExitCodeNull ==
  /\ \A k \in DOMAIN ClientsOf(last.payload) : ClientsOf(last.payload)[k].exit_code = None
  /\ \A k \in DOMAIN CLIENT_PROCS : CLIENT_PROCS[k].exit_code = None
\* a response that lists a client was sent after the reader of a client ended
T34_ListedAfterExit ==
  /\ last.code = 200 /\ DOMAIN ClientsOf(last.payload) # {}
  /\ \E pid \in DOMAIN procs : pid[1] = "c" /\ ~procs[pid].alive

\* C35: a request that fails on the pooled connection is sent again on a
\* fresh connection, and after that once more as a one-shot request, whose
\* failure alone is raised to the caller; a call sends its request at most
\* three times, and once when the first attempt succeeds.
C35_RetryThenOneShot ==
  /\ Len(trace) <= POST_ATTEMPTS
  /\ \A n \in DOMAIN trace : trace[n].via = Via(n)
  /\ (run.pc = "done" /\ run.ret = "raised") => Len(trace) = POST_ATTEMPTS
  /\ (run.pc = "done" /\ run.ret = "json") => Len(trace) = run.attempt
\* the count alone: at most three requests, in the order pooled, fresh,
\* one-shot, and as many as attempts were made
T35_AtMostThree ==
  /\ Len(trace) <= POST_ATTEMPTS
  /\ \A n \in DOMAIN trace : trace[n].via = Via(n)
  /\ run.pc = "done" => Len(trace) = run.attempt
\* without malformed responses the failure raised is that of the one-shot
T35_TimeoutsOnly ==
  (run.pc = "done" /\ run.ret = "raised") => Len(trace) = POST_ATTEMPTS

Exited(i) == i \in DOMAIN disc /\ disc[i].pc = "exited"
\* C36: once stop() has set the flag, the responder loop of the preceding
\* start() exits, whatever start() does later, and at most one responder loop
\* runs at any time.
C36_ResponderExits ==
  /\ \A i \in Loops : (i \in DOMAIN disc /\ Stale(i)) ~> Exited(i)
  /\ [](Cardinality(Responders) <= 1)
\* the second half alone
T36_OneResponder == Cardinality(Responders) <= 1
\* as long as start() is not called again, the loop exits after stop()
T36_NoRestart == (mainPc = "stopped" /\ Len(disc) = 1) ~> (Len(disc) > 1 \/ Exited(1))
\* a loop that has seen the flag set sends no reply afterwards
T36_SilentAfterExit == [][\A i \in DOMAIN disc : disc[i].pc = "exited" => disc'[i] = disc[i]]_vars
\* the first half alone
T36_Exits == \A i \in Loops : (i \in DOMAIN disc /\ Stale(i)) ~> Exited(i)

\* the thread holds the object its _pool.get returned
HasConn(th) == run[th].pc \in {"request", "response", "read"}
\* C37: the pool caches one connection for a key, and two get calls for the
\* same key with no remove or close_all between them return the same
\* connection object, for any interleaving of the callers.
C37_SameConnection ==
  \A a, b \in Callers : (HasConn(a) /\ HasConn(b) /\ run[a].key = run[b].key) => run[a].conn = run[b].conn
\* a get that finds the key cached returns the cached object, and a get
\* that does not returns an object no one holds
T37_CachedOrFresh ==
  [][\A th \in Callers : (~HasConn(th) /\ HasConn(th)') =>
        /\ run'[th].conn = _pool'.conns[run'[th].key]
        /\ run[th].pc = "create" => run'[th].conn \notin DOMAIN _pool.objs]_vars

\* the line read in this step, and the key of the reader that read it
LineRead == fcall'.ret # fcall.ret
RawRead == fcall'.args[1]
KeyRead == fcall'.args[2]
\* "info.get('last_json') or {}" of the entry at key
SnapshotAt(C, H, key) == IF C[key].last_json = None THEN EmptyDict ELSE H[The(C[key].last_json)]
Rev(C, key) == Truthy(Get(C[key].task, "reverse", PyNone))
\* the merge of the first matcher that accepts the line, and of no other
FirstMerge(lj, raw, rev) ==
  IF UdpMatches(raw) THEN MergeUdp(lj, UdpLine(raw), rev)
  ELSE IF TcpBrMatches(raw) THEN MergeTcpBr(lj, TcpBrLine(raw))
  ELSE IF GenericMatches(raw) THEN MergeGeneric(lj, GenericLine(raw))
  ELSE lj
\* C38: a line causes at most one merge, that of the first matcher in the
\* order UDP, marker, generic; a line that no matcher accepts, or whose
\* client is no longer registered, changes no snapshot and raises nothing.
C38_FirstMatchWins ==
  [][LineRead =>
       /\ reader' = reader
       /\ IF Has(CLIENT_PROCS, KeyRead)
          THEN /\ Has(CLIENT_PROCS', KeyRead)
               /\ SnapshotAt(CLIENT_PROCS', heap', KeyRead)
                    = FirstMerge(SnapshotAt(CLIENT_PROCS, heap, KeyRead), RawRead, Rev(CLIENT_PROCS, KeyRead))
          ELSE CLIENT_PROCS' = CLIENT_PROCS /\ heap' = heap]_vars
\* the same for the lines whose figures convert
T38_ConvertibleLines ==
  [][(LineRead /\ ~RawRead.bad) =>
       /\ reader' = reader
       /\ IF Has(CLIENT_PROCS, KeyRead)
          THEN /\ Has(CLIENT_PROCS', KeyRead)
               /\ SnapshotAt(CLIENT_PROCS', heap', KeyRead)
                    = FirstMerge(SnapshotAt(CLIENT_PROCS, heap, KeyRead), RawRead, Rev(CLIENT_PROCS, KeyRead))
          ELSE CLIENT_PROCS' = CLIENT_PROCS /\ heap' = heap]_vars
\* a line that no matcher accepts changes nothing
T38_Unmatched ==
  [][(LineRead /\ ~GenericMatches(RawRead)) =>
       CLIENT_PROCS' = CLIENT_PROCS /\ heap' = heap /\ reader' = reader]_vars

\* the fields a line is to update, by its marker, by the reverse flag of
\* the task, or by its role word
Routed(lj, raw, rev) ==
  IF UdpMatches(raw) THEN MergeUdp(lj, UdpLine(raw), rev)
  ELSE IF TcpBrMatches(raw) THEN MergeTcpBr(lj, TcpBrLine(raw))
  ELSE IF ~GenericMatches(raw) THEN lj
  ELSE IF RoleWord(raw) = "sender" THEN Put(lj, "interval_up_mbps", The(raw.rate))
  ELSE IF RoleWord(raw) = "receiver" THEN Put(lj, "interval_dn_mbps", The(raw.rate))
  ELSE Put(lj, "interval_mbps", The(raw.rate))
Merged == LineRead /\ ~RawRead.bad /\ Has(CLIENT_PROCS, KeyRead)
\* C39: a marked TCP line updates upload for TX-C and download for RX-C
\* whatever the reverse flag, a UDP line updates download for a reverse task
\* and upload otherwise, a generic line updates upload with the word sender,
\* download with receiver, and interval_mbps with no role word.
C39_DirectionRouting ==
  [][Merged => SnapshotAt(CLIENT_PROCS', heap', KeyRead)
                 = Routed(SnapshotAt(CLIENT_PROCS, heap, KeyRead), RawRead, Rev(CLIENT_PROCS, KeyRead))]_vars
\* the same for marked lines, UDP lines and lines without a role word
T39_MarkedUdpPlain ==
  [][(Merged /\ (UdpMatches(RawRead) \/ TcpBrMatches(RawRead) \/ RoleWord(RawRead) = "")) =>
        SnapshotAt(CLIENT_PROCS', heap', KeyRead)
          = Routed(SnapshotAt(CLIENT_PROCS, heap, KeyRead), RawRead, Rev(CLIENT_PROCS, KeyRead))]_vars
\* a generic line sets interval_mbps and no directional field, whatever its
\* role word
T39_GenericUndirected ==
  [][(Merged /\ ~UdpMatches(RawRead) /\ ~TcpBrMatches(RawRead) /\ GenericMatches(RawRead)) =>
        SnapshotAt(CLIENT_PROCS', heap', KeyRead)
          = Put(SnapshotAt(CLIENT_PROCS, heap, KeyRead), "interval_mbps", The(RawRead.rate))]_vars

LastBlock == fcall.args.intervals[Len(fcall.args.intervals)]
\* the sum of the rates of the streams with the given sender flag
RECURSIVE RateOf(_, _)
RateOf(streams, sender) ==
  IF streams = <<>> THEN 0
  ELSE (IF Head(streams).sender = sender THEN Mbps(Head(streams)) ELSE 0) + RateOf(Tail(streams), sender)
\* the greatest of the values of a field over the streams, 0 without any
RECURSIVE PeakOf(_, _)
PeakOf(streams, field) ==
  IF streams = <<>> THEN 0
  ELSE Greater(IF Head(streams)[field] = None THEN 0 ELSE The(Head(streams)[field]), PeakOf(Tail(streams), field))
PerStream(d, streams) ==
  /\ Get(d, "interval_up_mbps", 0) = RateOf(streams, TRUE)
  /\ Get(d, "interval_dn_mbps", 0) = RateOf(streams, FALSE)
  /\ Get(d, "jitter_ms", 0) = PeakOf(streams, "jitter")
  /\ Get(d, "loss_pct", 0) = PeakOf(streams, "loss")
\* C40: for the last interval block the upload total is the sum of the rates
\* of the streams with sender true, the download total the sum over the
\* other streams, jitter and loss the maximum over the streams; None is
\* returned without an interval block, and no exception leaves the function.
C40_StreamTotals ==
  fcall.ret # None =>
    IF fcall.args.intervals = <<>> THEN The(fcall.ret).none
    ELSE (~The(fcall.ret).none => PerStream(The(fcall.ret).d, LastBlock.streams))
\* the same for a block without a 'sum' entry
T40_WithoutSum ==
  (fcall.ret # None /\ fcall.args.intervals # <<>>) =>
     ((LastBlock.sum = None /\ ~The(fcall.ret).none) => PerStream(The(fcall.ret).d, LastBlock.streams))
\* no interval block: None
T40_NoBlock == (fcall.ret # None /\ fcall.args.intervals = <<>>) => The(fcall.ret).none

====
